---- MODULE Spec2Model ----
(***************************************************************************)
(* Verification model of the StunClient class (NAT classification, the     *)
(* network-type aggregator and the path-quality speed test).               *)
(*                                                                         *)
(* The specifications of this module:                                      *)
(*   SpecFromAddresses  detectNATTypeFromAddresses on every mapping list;   *)
(*   SpecClassify    one detectXxxNATType() call: the getMappedAddress /    *)
(*                   testStunServerConnection sessions of every roster      *)
(*                   server followed by detectNATTypeFromAddresses;         *)
(*   Spec            one detectNetworkType() run, await by await;           *)
(*   SpecSpeed       one performSpeedTest() measurement, event by event;    *)
(*   SpecProbe       one session of a rendezvous probe, event by event;     *)
(*   SpecLateEvents  the same session with a transport that still emits     *)
(*                   candidates after it was closed;                        *)
(*   SpecConcurrent  the measurements of one run, started together;         *)
(*   SpecApp         the App component around a detection run;              *)
(*   SpecDetailed    one getDetailedNetworkInfo() call, promise by promise, *)
(*                   SpecDetailedFair the same with fair timers;            *)
(*   SpecPublicIP    detectPublicIP and getPublicIPFromStun on one sequence *)
(*                   of candidates;                                         *)
(*   SpecReach       testStunServers over the default roster;               *)
(*   SpecCadence     the send loop of performSpeedTest against the clock,   *)
(*                   50 ms by 50 ms.                                        *)
(*                                                                         *)
(* A nullable JavaScript value is a sequence of length 0 (null) or 1.      *)
(***************************************************************************)
EXTENDS Integers, Sequences, FiniteSets, TLC

VARIABLES
    stunServers,        \* this.stunServers: the roster, a sequence of server names
    \* ---- one detectXxxNATType() call (SpecClassify)
    protocol,           \* 'UDP' | 'TCP' of the detector that runs
    ipVersion,          \* 'IPv4' | 'IPv6' of the detector that runs
    hostFamily,         \* address family of the candidates the host gathers in this call
    mappedAddresses,    \* per roster index: pending, or the object getMappedAddress resolved
    connectionResult,   \* single-server roster: pending, or {udp, tcp} of testStunServerConnection
    addresses,          \* the filtered {ip, port, server} list handed to detectNATTypeFromAddresses
    natResult,          \* NATTypeResult | null returned by the detector
    dpc,                \* "probing" | "input" | "done" | "repeated" ("idle" outside these
                        \* specifications)
    \* ---- one detectNetworkType() run (Spec)
    rpc,                \* the await the run is suspended at: "reach", "conn", "pub", "nat",
                        \* "speed"; "done" once it returned, "rejected" once its promise
                        \* rejected ("idle" outside Spec)
    reachNext,          \* roster index the loop of testStunServers is at
    reachableServers,   \* reachableServers of testStunServers
    connectionResults,  \* per roster index: pending, or {udp, tcp} (step 2)
    canConnect,         \* [udp |-> udpCanConnect, tcp |-> tcpCanConnect]
    hasPublicIP,        \* result of detectPublicIP
    natDone,            \* the detectors of step 4 that have resolved
    natResults,         \* per (protocol, ipVersion): NATTypeResult | null
    speedTargets,       \* mappedAddresses collected in step 8
    record,             \* the NetworkDetectionResult returned, null before
    \* ---- one performSpeedTest(mappedAddress) measurement (SpecSpeed)
    spc,                \* "start" | "running" | "threw" ("idle" outside SpecSpeed)
    target,             \* the mappedAddress argument
    binaryType,         \* binaryType of the data channels: "arraybuffer" | "blob"
    negotiation,        \* the offer/answer promise chain: "pending" | "done" | "failed"
    connectionEstablished,
    peers,              \* [pc1, pc2]: "none" | "open" | "closed"
    dataChannel1,       \* "none" | "connecting" | "open" | "closed"
    dataChannel2,       \* "none" | "open" | "closed"
    sendInterval,       \* the setInterval of onopen is armed
    stopTimer,          \* the setTimeout(testDuration) of onopen is armed
    timeout,            \* the setTimeout(testDuration + 2000) is armed
    packets,            \* [sent, received]
    latencies,          \* [count, sum] of the samples pushed
    totalBytesReceived,
    inflight,           \* [toResponder, toSender]: payloads sent and not yet delivered
    speedResult,        \* what the measurement delivered to its caller, null before
    now,                \* Date.now() - startTime, in ms
    connectionStartTime, \* connectionStartTime - startTime, in ms
    \* ---- one session of a rendezvous probe (SpecProbe)
    probe,              \* the probe that runs: "getMappedAddress", "testStunServerConnection",
                        \* "detectPublicIP", "getPublicIPFromStun" or "getLocalIP"
    ppc,                \* "start" | "running" | "threw" ("idle" outside SpecProbe)
    resolved,           \* the resolved flag of the closure
    pc,                 \* the RTCPeerConnection: "none" | "open" | "closed"
    probeTimer,         \* the setTimeout(5000) is armed
    offer,              \* createOffer().then(setLocalDescription): "pending" | "done" | "failed"
    gathering,          \* ICE gathering: "new" | "gathering" | "complete"
    gathered,           \* what the handler accumulated: addresses, or {udp, tcp} flags
    seen,               \* the candidates onicecandidate was called with, in order
    probeResult,        \* the value the promise resolved with, null before
    elapsed,            \* ms since the probe started
    \* ---- the measurements step 8 of one run starts together (SpecConcurrent)
    tests,              \* per target: the closure of its performSpeedTest call
    joinedResults,      \* results of await Promise.all(speedTestPromises), null before
    \* ---- the App component (SpecApp)
    isDetecting,        \* useState(false)
    uiNetworkType,      \* networkType of useState(''): the label, <<>> for the empty string
    networkDetails,     \* useState(null)
    detections,         \* the calls of App's detectNetworkType so far: "running",
                        \* "resolved" or "rejected" each
    \* ---- one getDetailedNetworkInfo() call (SpecDetailed); a promise is "pending",
    \* ---- "fulfilled" (an event of its session or its timer called finish) or
    \* ---- "rejected" (its executor threw)
    gpc,                \* getDetailedNetworkInfo: "start", "all" (await Promise.all),
                        \* "reach" (await testStunServers), "returned", "rejected"
    npc,                \* detectNetworkType: "reach", "conn", "pub", "nat", "speed",
                        \* "done", "rejected" ("idle" before the call)
    loopAt,             \* roster index the running testStunServers loop is at
    awaited,            \* the promise a sequential await waits for: testStunServer of
                        \* the loop, or detectPublicIP
    connUnits,          \* step 2: the testStunServerConnection promise per server
    detSessions,        \* step 4: per detector, the getMappedAddress promise per server
    detOutcome,         \* step 4: per detector "awaiting", "null" or "result"
    speedUnits,         \* step 8: the performSpeedTest promise per target; "caught" when
                        \* the executor threw and the callback returned the failed result
    publicIPUnit,       \* the getPublicIPFromStun promise of getDetailedNetworkInfo
    localIPUnit,        \* the getLocalIP promise of getDetailedNetworkInfo
    throws,             \* constructors that threw so far
    networkTypeResult,  \* what detectNetworkType returned, null before
    detailedResult,     \* what getDetailedNetworkInfo returned, null before
    \* ---- detectPublicIP and getPublicIPFromStun on one candidate sequence (SpecPublicIP)
    primaryEvents,      \* the candidates the primary server's session delivers
    publicFlag,         \* null, or what detectPublicIP resolved with
    stunPublicIP,       \* null, or what getPublicIPFromStun resolved with (itself nullable)
    \* ---- testStunServers with the sessions it ran (SpecReach)
    probeLog,           \* per server tested so far: the candidates its session delivered
                        \* and whether its executor threw
    \* ---- performSpeedTest, continued
    iceServers,         \* the iceServers both peer connections are constructed with
    \* ---- the send loop of performSpeedTest against the clock (SpecCadence)
    nextTick            \* the instant the next callback of the 50 ms interval is due

classifyVars == <<protocol, ipVersion, hostFamily, mappedAddresses, connectionResult,
                  addresses, natResult, dpc>>

runVars == <<rpc, reachNext, reachableServers, connectionResults, canConnect, hasPublicIP,
             natDone, natResults, speedTargets, record>>

speedVars == <<spc, target, binaryType, negotiation, connectionEstablished, peers,
               dataChannel1, dataChannel2, sendInterval, stopTimer, timeout, packets,
               latencies, totalBytesReceived, inflight, speedResult, now,
               connectionStartTime, iceServers>>

probeVars == <<probe, ppc, resolved, pc, probeTimer, offer, gathering, gathered, seen,
               probeResult, elapsed>>

concurrentVars == <<tests, joinedResults>>

(* the variables of the specifications added after the first four *)
appVars == <<isDetecting, uiNetworkType, networkDetails, detections>>

detailedVars == <<gpc, npc, loopAt, awaited, connUnits, detSessions,
                  detOutcome, speedUnits, publicIPUnit, localIPUnit, throws,
                  networkTypeResult, detailedResult>>

publicIPVars == <<primaryEvents, publicFlag, stunPublicIP>>

reachVars == <<probeLog>>

cadenceVars == <<nextTick>>

extraVars == <<publicIPVars, reachVars, cadenceVars>>

restVars == <<concurrentVars, appVars, detailedVars, extraVars>>

vars == <<stunServers, classifyVars, runVars, speedVars, probeVars, restVars>>

-----------------------------------------------------------------------------
(* Bounds of the model *)

MaxServers == 2     \* rosters of 1..MaxServers servers in SpecClassify and Spec
MaxRoster == 3      \* rosters of 2..MaxRoster servers in SpecFromAddresses
MaxSent == 3        \* payloads a measurement sends at most in SpecSpeed
MaxEvents == 2      \* candidates a session emits before it finishes

-----------------------------------------------------------------------------
(* Nullable values *)

NULL == <<>>
Some(x) == <<x>>
Pending == <<>>

Protocols == {"UDP", "TCP"}
IpVersions == {"IPv4", "IPv6"}

(* Address literals the rendezvous servers may report, and their ports. *)
IPv4s == {"203.0.113.5", "198.51.100.7"}
IPv6s == {"2001:db8::5", "2001:db8::7"}
Ports == {40000, 51000}

(* Addresses of the host's own interfaces, carried by host candidates. *)
LocalIPv4 == "192.168.1.10"
LocalIPv6 == "fe80::1"

(* Further literals a candidate line may carry (sessions of SpecProbe): a    *)
(* mapped address inside 10.0.0.0/8, one inside 127.0.0.0/8 that is not      *)
(* 127.0.0.1, a public one whose text contains '10.', a unique-local IPv6    *)
(* address (fc00::/7) outside fc00:: and fd00::, and the related address a   *)
(* browser discloses when it masks the real one.                             *)
PrivateIPv4 == "10.0.0.7"
LoopbackIPv4 == "127.0.0.2"
PublicIPv4With10 == "112.10.3.4"
UniqueLocalIPv6 == "fd12::7"
MaskedAddress == "0.0.0.0"

IPsOf(family) == IF family = "IPv6" THEN IPv6s ELSE IPv4s
LocalIPOf(family) == IF family = "IPv6" THEN LocalIPv6 ELSE LocalIPv4

(* isIPv6(ip): ip.includes(':') -- of the literals above those written with ':'. *)
isIPv6(ip) == ip \in IPv6s \cup {LocalIPv6, UniqueLocalIPv6}

Rosters == {[i \in 1..n |-> i] : n \in 1..MaxServers}

-----------------------------------------------------------------------------
(* ICE candidates.  A candidate line                                        *)
(*   candidate:<foundation> <component> <protocol> <priority> <ip> <port> typ <type> ... *)
(* is kept as its protocol token, parts[4], parseInt(parts[5]) and type.    *)

SrflxCandidates(family) ==
    [typ : {"srflx"}, protocol : Protocols, ip : IPsOf(family), port : Ports]

HostCandidates(family) ==
    [typ : {"host"}, protocol : Protocols, ip : {LocalIPOf(family)}, port : {50000}]

Candidates(family) == SrflxCandidates(family) \cup HostCandidates(family)

RECURSIVE SeqsUpTo(_, _)
SeqsUpTo(S, n) ==
    IF n = 0 THEN {<<>>}
    ELSE LET shorter == SeqsUpTo(S, n - 1)
         IN  shorter \cup {Append(s, x) : s \in {t \in shorter : Len(t) = n - 1}, x \in S}

(* The candidates a session delivers before gathering completes, the offer  *)
(* fails or the 5000 ms timer fires.                                        *)
EventSeqs(family) == SeqsUpTo(Candidates(family), MaxEvents)

-----------------------------------------------------------------------------
(* getMappedAddress *)

EmptyAddresses ==
    [ipv4 |-> [udp |-> NULL, tcp |-> NULL], ipv6 |-> [udp |-> NULL, tcp |-> NULL]]

(* mutant: the handler does not look at the candidate type *)
MappedOnIceCandidate_anyType(found, c) ==
    IF c.port > 0 THEN
        IF c.protocol = "UDP" THEN
            IF isIPv6(c.ip)
            THEN [found EXCEPT !.ipv6.udp = Some([ip |-> c.ip, port |-> c.port])]
            ELSE [found EXCEPT !.ipv4.udp = Some([ip |-> c.ip, port |-> c.port])]
        ELSE
            IF isIPv6(c.ip)
            THEN [found EXCEPT !.ipv6.tcp = Some([ip |-> c.ip, port |-> c.port])]
            ELSE [found EXCEPT !.ipv4.tcp = Some([ip |-> c.ip, port |-> c.port])]
    ELSE found

(* pc.onicecandidate of getMappedAddress for a non-null candidate *)
MappedOnIceCandidate(found, c) ==
    IF c.typ = "srflx" /\ c.protocol = "UDP" THEN
        IF c.port > 0 THEN
            IF isIPv6(c.ip)
            THEN [found EXCEPT !.ipv6.udp = Some([ip |-> c.ip, port |-> c.port])]
            ELSE [found EXCEPT !.ipv4.udp = Some([ip |-> c.ip, port |-> c.port])]
        ELSE found
    ELSE IF c.typ = "srflx" /\ c.protocol = "TCP" THEN
        IF c.port > 0 THEN
            IF isIPv6(c.ip)
            THEN [found EXCEPT !.ipv6.tcp = Some([ip |-> c.ip, port |-> c.port])]
            ELSE [found EXCEPT !.ipv4.tcp = Some([ip |-> c.ip, port |-> c.port])]
        ELSE found
    ELSE found

RECURSIVE MappedAfter(_, _)
MappedAfter(found, events) ==
    IF events = <<>> THEN found
    ELSE MappedAfter(MappedOnIceCandidate(found, Head(events)), Tail(events))

(* The object getMappedAddress resolves after the session delivered `events` *)
GetMappedAddressResult(events) == MappedAfter(EmptyAddresses, events)

-----------------------------------------------------------------------------
(* testStunServerConnection *)

(* pc.onicecandidate of testStunServerConnection for a non-null candidate *)
ConnectionOnIceCandidate(flags, c) ==
    IF c.typ = "srflx" /\ c.protocol = "UDP" THEN [flags EXCEPT !.udp = TRUE]
    ELSE IF c.typ = "srflx" /\ c.protocol = "TCP" THEN [flags EXCEPT !.tcp = TRUE]
    ELSE flags

RECURSIVE ConnectionAfter(_, _)
ConnectionAfter(flags, events) ==
    IF events = <<>> THEN flags
    ELSE ConnectionAfter(ConnectionOnIceCandidate(flags, Head(events)), Tail(events))

TestStunServerConnectionResult(events) ==
    ConnectionAfter([udp |-> FALSE, tcp |-> FALSE], events)

(* mutant: only the UDP flag of the session counts *)
TestStunServerResult_udpOnly(events) == TestStunServerConnectionResult(events).udp

(* testStunServer: result.udp || result.tcp of the awaited session *)
TestStunServerResult(events) ==
    LET result == TestStunServerConnectionResult(events)
    IN  result.udp \/ result.tcp

-----------------------------------------------------------------------------
(* detectNATTypeFromAddresses *)

(* mutant: addresses.some() where the code has addresses.every() *)
allSameIP_some(list) ==
    \E i \in 1..Len(list) : list[i].ip = list[1].ip

(* addresses.every(addr => addr.ip === firstIP) *)
allSameIP(list) ==
    \A i \in 1..Len(list) : list[i].ip = list[1].ip

(* mutant: addresses.some() where the code has addresses.every() *)
allSamePort_some(list) ==
    \E i \in 1..Len(list) : list[i].port = list[1].port

(* addresses.every(addr => addr.port === firstPort) *)
allSamePort(list) ==
    \A i \in 1..Len(list) : list[i].port = list[1].port

(* mutant: the roster size is not consulted *)
ConeType_noRoster(list, servers) == "Full Cone or Restricted Cone"

(* the branch on addresses.length === this.stunServers.length *)
ConeType(list, servers) ==
    IF Len(list) = Len(servers)
    THEN "Full Cone or Restricted Cone"
    ELSE "Restricted Cone"

(* mutant: an empty list is classified 'Unknown' instead of returning null *)
DetectNATTypeFromAddresses_emptyUnknown(list, servers) ==
    IF Len(list) = 0 \/ ~allSameIP(list)
    THEN Some([type |-> "Unknown", mappedAddresses |-> list])
    ELSE Some([type |-> IF allSamePort(list)
                        THEN ConeType(list, servers)
                        ELSE "Symmetric NAT",
               mappedAddresses |-> list])

DetectNATTypeFromAddresses(list, servers) ==
    IF Len(list) = 0 THEN NULL
    ELSE IF ~allSameIP(list)
    THEN Some([type |-> "Unknown", mappedAddresses |-> list])
    ELSE Some([type |-> IF allSamePort(list)
                        THEN ConeType(list, servers)
                        ELSE "Symmetric NAT",
               mappedAddresses |-> list])

-----------------------------------------------------------------------------
(* detectIPv4UDPNATType, detectIPv6UDPNATType, detectIPv4TCPNATType,        *)
(* detectIPv6TCPNATType: one body, the slot read and the flag tested differ *)

SlotOf(addr, proto, version) ==
    IF version = "IPv4"
    THEN (IF proto = "UDP" THEN addr.ipv4.udp ELSE addr.ipv4.tcp)
    ELSE (IF proto = "UDP" THEN addr.ipv6.udp ELSE addr.ipv6.tcp)

(* mutant: every kept address is entered twice *)
SlotAddresses_twice(mapped, servers, proto, version) ==
    LET items == [i \in 1..Len(servers) |->
                     [address |-> SlotOf(mapped[i], proto, version),
                      server |-> servers[i]]]
        kept == SelectSeq(items, LAMBDA item : item.address # NULL)
    IN  [k \in 1..(2 * Len(kept)) |->
            [ip |-> kept[(k + 1) \div 2].address[1].ip,
             port |-> kept[(k + 1) \div 2].address[1].port,
             server |-> kept[(k + 1) \div 2].server]]

(* mutant: the server name is looked up by the index after the filter *)
SlotAddresses_filteredIndex(mapped, servers, proto, version) ==
    LET items == [i \in 1..Len(servers) |->
                     [address |-> SlotOf(mapped[i], proto, version)]]
        kept == SelectSeq(items, LAMBDA item : item.address # NULL)
    IN  [k \in 1..Len(kept) |->
            [ip |-> kept[k].address[1].ip,
             port |-> kept[k].address[1].port,
             server |-> servers[k]]]

(* .map(addr, index).filter(address !== null).map({ip, port, server}) *)
SlotAddresses(mapped, servers, proto, version) ==
    LET items == [i \in 1..Len(servers) |->
                     [address |-> SlotOf(mapped[i], proto, version),
                      server |-> servers[i]]]
        kept == SelectSeq(items, LAMBDA item : item.address # NULL)
    IN  [k \in 1..Len(kept) |->
            [ip |-> kept[k].address[1].ip,
             port |-> kept[k].address[1].port,
             server |-> kept[k].server]]

(* the single-server branch of the four detectors *)
SingleServerResult(result, proto) ==
    IF (IF proto = "UDP" THEN result.udp ELSE result.tcp)
    THEN Some([type |-> "Full Cone or Restricted Cone", mappedAddresses |-> <<>>])
    ELSE NULL

-----------------------------------------------------------------------------
(* SpecClassify *)

Pairs == Protocols \X IpVersions

IdleSpeed ==
    /\ spc = "idle"
    /\ target = NULL
    /\ binaryType = "arraybuffer"
    /\ negotiation = "pending"
    /\ connectionEstablished = FALSE
    /\ peers = [pc1 |-> "none", pc2 |-> "none"]
    /\ dataChannel1 = "none"
    /\ dataChannel2 = "none"
    /\ sendInterval = FALSE
    /\ stopTimer = FALSE
    /\ timeout = FALSE
    /\ packets = [sent |-> 0, received |-> 0]
    /\ latencies = [count |-> 0, sum |-> 0]
    /\ totalBytesReceived = 0
    /\ inflight = [toResponder |-> 0, toSender |-> 0]
    /\ speedResult = NULL
    /\ now = 0
    /\ connectionStartTime = 0
    /\ iceServers = <<>>

IdleConcurrent ==
    /\ tests = <<>>
    /\ joinedResults = NULL

IdleApp ==
    /\ isDetecting = FALSE
    /\ uiNetworkType = <<>>
    /\ networkDetails = NULL
    /\ detections = <<>>

IdleDetailed ==
    /\ gpc = "idle"
    /\ npc = "idle"
    /\ loopAt = 1
    /\ awaited = "none"
    /\ connUnits = <<>>
    /\ detSessions = <<>>
    /\ detOutcome = <<>>
    /\ speedUnits = <<>>
    /\ publicIPUnit = "none"
    /\ localIPUnit = "none"
    /\ throws = 0
    /\ networkTypeResult = <<>>
    /\ detailedResult = <<>>

IdlePublicIP ==
    /\ primaryEvents = <<>>
    /\ publicFlag = <<>>
    /\ stunPublicIP = <<>>

IdleReach ==
    /\ probeLog = <<>>

IdleCadence ==
    /\ nextTick = 0

IdleExtra == IdlePublicIP /\ IdleReach /\ IdleCadence

IdleRest == IdleConcurrent /\ IdleApp /\ IdleDetailed /\ IdleExtra

IdleProbe ==
    /\ probe = "getMappedAddress"
    /\ ppc = "idle"
    /\ resolved = FALSE
    /\ pc = "none"
    /\ probeTimer = FALSE
    /\ offer = "pending"
    /\ gathering = "new"
    /\ gathered = NULL
    /\ seen = <<>>
    /\ probeResult = NULL
    /\ elapsed = 0

IdleRun ==
    /\ rpc = "idle"
    /\ reachNext = 0
    /\ reachableServers = <<>>
    /\ connectionResults = <<>>
    /\ canConnect = [udp |-> FALSE, tcp |-> FALSE]
    /\ hasPublicIP = FALSE
    /\ natDone = {}
    /\ natResults = [pair \in Pairs |-> NULL]
    /\ speedTargets = <<>>
    /\ record = NULL

InitClassify ==
    /\ IdleProbe
    /\ IdleRest
    /\ IdleRun
    /\ IdleSpeed
    /\ stunServers \in Rosters
    /\ protocol \in Protocols
    /\ ipVersion \in IpVersions
    /\ hostFamily \in IpVersions
    /\ mappedAddresses = [i \in 1..Len(stunServers) |-> Pending]
    /\ connectionResult = Pending
    /\ addresses = <<>>
    /\ natResult = NULL
    /\ dpc = "probing"

(* The objects a getMappedAddress session can resolve with: the result of    *)
(* every candidate sequence of the host's family.                            *)
MappedResultsIPv4 == {GetMappedAddressResult(events) : events \in EventSeqs("IPv4")}
MappedResultsIPv6 == {GetMappedAddressResult(events) : events \in EventSeqs("IPv6")}

MappedResults(family) ==
    IF family = "IPv6" THEN MappedResultsIPv6 ELSE MappedResultsIPv4

(* One getMappedAddress(server) session of the Promise.all, start to resolve *)
GetMappedAddress(i) ==
    /\ dpc = "probing"
    /\ Len(stunServers) # 1
    /\ mappedAddresses[i] = Pending
    /\ \E result \in MappedResults(hostFamily) :
          mappedAddresses' = [mappedAddresses EXCEPT ![i] = Some(result)]
    /\ UNCHANGED <<stunServers, restVars, probeVars, protocol, ipVersion, hostFamily, connectionResult,
                   addresses, natResult, dpc, runVars, speedVars>>

(* The testStunServerConnection session of the single-server branch *)
TestStunServerConnection ==
    /\ dpc = "probing"
    /\ Len(stunServers) = 1
    /\ connectionResult = Pending
    /\ \E events \in EventSeqs(hostFamily) :
          connectionResult' = Some(TestStunServerConnectionResult(events))
    /\ UNCHANGED <<stunServers, restVars, probeVars, protocol, ipVersion, hostFamily, mappedAddresses,
                   addresses, natResult, dpc, runVars, speedVars>>

(* The detector resumes after its await and returns *)
DetectNATType ==
    /\ dpc = "probing"
    /\ IF Len(stunServers) = 1
       THEN /\ connectionResult # Pending
            /\ natResult' = SingleServerResult(connectionResult[1], protocol)
            /\ UNCHANGED addresses
       ELSE /\ \A i \in 1..Len(stunServers) : mappedAddresses[i] # Pending
            /\ addresses' =
                   SlotAddresses([i \in 1..Len(stunServers) |-> mappedAddresses[i][1]],
                                 stunServers, protocol, ipVersion)
            /\ natResult' = DetectNATTypeFromAddresses(addresses', stunServers)
    /\ dpc' = "done"
    /\ UNCHANGED <<stunServers, restVars, probeVars, protocol, ipVersion, hostFamily, mappedAddresses,
                   connectionResult, runVars, speedVars>>

NextClassify ==
    \/ \E i \in 1..Len(stunServers) : GetMappedAddress(i)
    \/ TestStunServerConnection
    \/ DetectNATType

SpecClassify == InitClassify /\ [][NextClassify]_vars

(* the position of a server in the roster *)
RosterIndex(server) == CHOOSE i \in 1..Len(stunServers) : stunServers[i] = server

(* C33: in the evidence of a classification every entry names a roster        *)
(* server, the entries follow the roster order strictly (so no server is      *)
(* named twice and the evidence is no longer than the roster), and the entry  *)
(* of a server is the one address its session left in the slot of the         *)
(* detector's transport and family.                                           *)
C33_OneEntryPerServer ==
    (dpc = "done" /\ natResult # NULL) =>
        LET evidence == natResult[1].mappedAddresses
        IN  /\ Len(evidence) <= Len(stunServers)
            /\ \A k \in 1..Len(evidence) :
                   \E i \in 1..Len(stunServers) : stunServers[i] = evidence[k].server
            /\ \A j, k \in 1..Len(evidence) :
                   j < k => RosterIndex(evidence[j].server) < RosterIndex(evidence[k].server)
            /\ Len(stunServers) > 1 =>
                   \A k \in 1..Len(evidence) :
                       LET slot == SlotOf(mappedAddresses[RosterIndex(evidence[k].server)][1],
                                          protocol, ipVersion)
                       IN  slot = Some([ip |-> evidence[k].ip, port |-> evidence[k].port])

(* a classification over a roster of several servers in which every server    *)
(* contributed its entry                                                      *)
C33_Witness ==
    /\ dpc = "done"
    /\ natResult # NULL
    /\ Len(stunServers) > 1
    /\ Len(natResult[1].mappedAddresses) = Len(stunServers)

-----------------------------------------------------------------------------
(* SpecFromAddresses: detectNATTypeFromAddresses applied to every list a     *)
(* detector can hand it (roster order, at most one entry per server, the     *)
(* addresses of one family).                                                 *)

RECURSIVE AddressLists(_, _, _)
AddressLists(servers, k, version) ==
    IF k > Len(servers) THEN {<<>>}
    ELSE LET rest == AddressLists(servers, k + 1, version)
         IN  rest \cup
             {<<[ip |-> ip, port |-> port, server |-> servers[k]]>> \o r :
                 ip \in IPsOf(version), port \in Ports, r \in rest}

InitFromAddresses ==
    /\ IdleProbe
    /\ IdleRest
    /\ IdleRun
    /\ IdleSpeed
    /\ stunServers \in {[i \in 1..n |-> i] : n \in 2..MaxRoster}
    /\ protocol \in Protocols
    /\ ipVersion \in IpVersions
    /\ hostFamily = ipVersion
    /\ mappedAddresses = <<>>
    /\ connectionResult = Pending
    /\ addresses \in AddressLists(stunServers, 1, ipVersion)
    /\ natResult = NULL
    /\ dpc = "input"

(* mutant: the classifier consumes its argument (addresses.shift()) *)
AddressesAfter_shifted(list) == IF list = <<>> THEN list ELSE Tail(list)

(* the argument array after a call: the function only reads it (length,      *)
(* [0], every) and hands the same array back as mappedAddresses              *)
AddressesAfter(list) == list

Classify ==
    /\ dpc = "input"
    /\ natResult' = DetectNATTypeFromAddresses(addresses, stunServers)
    /\ addresses' = AddressesAfter(addresses)
    /\ dpc' = "done"
    /\ UNCHANGED <<stunServers, restVars, probeVars, protocol, ipVersion, hostFamily, mappedAddresses,
                   connectionResult, runVars, speedVars>>

(* a second call with the same array and the same roster *)
ClassifyAgain ==
    /\ dpc = "done"
    /\ natResult' = DetectNATTypeFromAddresses(addresses, stunServers)
    /\ addresses' = AddressesAfter(addresses)
    /\ dpc' = "repeated"
    /\ UNCHANGED <<stunServers, restVars, probeVars, protocol, ipVersion, hostFamily, mappedAddresses,
                   connectionResult, runVars, speedVars>>

NextFromAddresses ==
    \/ Classify
    \/ ClassifyAgain

SpecFromAddresses == InitFromAddresses /\ [][NextFromAddresses]_vars

-----------------------------------------------------------------------------
(* Properties of the classification *)

IPsIn(list) == {list[i].ip : i \in 1..Len(list)}
PortsIn(list) == {list[i].port : i \in 1..Len(list)}

(* C1: a mapping list with one IP and two or more distinct ports is          *)
(* classified 'Symmetric NAT', whatever the roster size and the number of    *)
(* servers that answered.                                                    *)
C1_SymmetricOnPortChange ==
    (dpc = "done" /\ Cardinality(IPsIn(addresses)) = 1
                  /\ Cardinality(PortsIn(addresses)) >= 2)
        => /\ natResult # NULL
           /\ natResult[1].type = "Symmetric NAT"

(* Scenario B: S1 reports 203.0.113.5:40000, S2 reports 203.0.113.5:51000 *)
C1_Witness ==
    /\ dpc = "done"
    /\ Len(addresses) = 2
    /\ addresses[1] = [ip |-> "203.0.113.5", port |-> 40000, server |-> 1]
    /\ addresses[2] = [ip |-> "203.0.113.5", port |-> 51000, server |-> 2]
    /\ natResult # NULL
    /\ natResult[1].type = "Symmetric NAT"

(* C2: a mapping list with two or more distinct IPs is classified 'Unknown', *)
(* whether the ports agree or not.                                           *)
C2_UnknownOnIPChange ==
    (dpc = "done" /\ Cardinality(IPsIn(addresses)) >= 2)
        => /\ natResult # NULL
           /\ natResult[1].type = "Unknown"

C2_Witness ==
    /\ dpc = "done"
    /\ Len(addresses) = 2
    /\ addresses[1].ip # addresses[2].ip
    /\ addresses[1].port = addresses[2].port
    /\ natResult # NULL
    /\ natResult[1].type = "Unknown"

(* C3: a non-empty mapping list with one IP and one port is never            *)
(* 'Symmetric NAT'; with two or more mappings it is 'Full Cone or Restricted *)
(* Cone' when every roster server produced a mapping and 'Restricted Cone'   *)
(* otherwise; two servers reporting one address give 'Full Cone or           *)
(* Restricted Cone' with two evidence entries.                               *)
C3_StableMapping ==
    (dpc = "done" /\ Cardinality(IPsIn(addresses)) = 1
                  /\ Cardinality(PortsIn(addresses)) = 1)
        => /\ natResult # NULL
           /\ natResult[1].type # "Symmetric NAT"
           /\ Len(addresses) >= 2 =>
                 /\ {addresses[i].server : i \in 1..Len(addresses)}
                        = {stunServers[i] : i \in 1..Len(stunServers)}
                      => natResult[1].type = "Full Cone or Restricted Cone"
                 /\ {addresses[i].server : i \in 1..Len(addresses)}
                        # {stunServers[i] : i \in 1..Len(stunServers)}
                      => natResult[1].type = "Restricted Cone"
           /\ (Len(stunServers) = 2 /\ Len(addresses) = 2)
                 => /\ natResult[1].type = "Full Cone or Restricted Cone"
                    /\ Len(natResult[1].mappedAddresses) = 2

(* two of three servers report the same address: the stricter category *)
C3_Witness ==
    /\ dpc = "done"
    /\ Len(stunServers) = 3
    /\ Len(addresses) = 2
    /\ addresses[1].ip = addresses[2].ip
    /\ addresses[1].port = addresses[2].port
    /\ natResult # NULL
    /\ natResult[1].type = "Restricted Cone"

-----------------------------------------------------------------------------
(* Properties of one detector call (SpecClassify) *)

OtherProtocol(proto) == IF proto = "UDP" THEN "TCP" ELSE "UDP"

(* roster indices whose session stored a mapping for (proto, version) *)
Producers(proto, version) ==
    {i \in 1..Len(stunServers) :
        mappedAddresses[i] # Pending /\ SlotOf(mappedAddresses[i][1], proto, version) # NULL}

(* the single server of a one-server roster signalled a srflx candidate of proto *)
SingleResponded(proto) ==
    /\ connectionResult # Pending
    /\ IF proto = "UDP" THEN connectionResult[1].udp ELSE connectionResult[1].tcp

ExactlyOneProduced ==
    IF Len(stunServers) = 1
    THEN SingleResponded(protocol)
    ELSE Cardinality(Producers(protocol, ipVersion)) = 1

NoneProduced ==
    IF Len(stunServers) = 1
    THEN ~SingleResponded(protocol)
    ELSE Producers(protocol, ipVersion) = {}

OtherTransportResponded ==
    IF Len(stunServers) = 1
    THEN SingleResponded(OtherProtocol(protocol))
    ELSE Producers(OtherProtocol(protocol), ipVersion) # {}

-----------------------------------------------------------------------------
(* detectPublicIP *)

(* isPrivateIP of detectPublicIP: candidate.includes() of the listed private, *)
(* loopback, link-local and broadcast patterns, anywhere in the candidate     *)
(* line: in the mapped address or in the related address.                     *)
(* text.includes(p) for one of the 28 listed p: '192.168.', '10.',            *)
(* '172.16.'..'172.31.', '169.254.', '127.0.0.1', '::1', 'fc00:', 'fd00:',    *)
(* 'fe80:', '.local', 'localhost', '0.0.0.0', '255.255.255.255'               *)
IncludesListed(text) ==
    text \in {LocalIPv4, LocalIPv6, PrivateIPv4, PublicIPv4With10, MaskedAddress}

(* the related address (raddr) written in the candidate line, if any that    *)
(* the line discloses                                                        *)
RelatedOf(c) == IF "raddr" \in DOMAIN c THEN c.raddr ELSE NULL

IsPrivateCandidate(c) ==
    \/ IncludesListed(c.ip)
    \/ RelatedOf(c) # NULL /\ IncludesListed(RelatedOf(c)[1])

(* pc.onicecandidate of detectPublicIP; st = [resolved, result] *)
PublicOnIceCandidate(st, c) ==
    IF c.typ = "srflx" /\ c.protocol = "UDP" /\ ~st.resolved
    THEN [resolved |-> TRUE, result |-> ~IsPrivateCandidate(c)]
    ELSE st

RECURSIVE PublicAfter(_, _)
PublicAfter(st, events) ==
    IF events = <<>> THEN st
    ELSE PublicAfter(PublicOnIceCandidate(st, Head(events)), Tail(events))

(* what detectPublicIP resolves: finish(false) on gathering complete, offer  *)
(* failure or timeout when no candidate resolved it before                   *)
DetectPublicIPResult(events) ==
    PublicAfter([resolved |-> FALSE, result |-> FALSE], events).result

-----------------------------------------------------------------------------
(* detectNetworkType: steps 5 and 6 *)

(* The labels are written in ASCII; a template string is the sequence of its *)
(* parts.                                                                    *)
Firewalled == <<"Firewalled/Blocked network">>
PublicNetwork == <<"Open/Public network">>

(* mutant: 'Restricted Cone' is given the label of 'Full Cone or Restricted Cone' *)
formatNATType_merged(t) ==
    IF t \in {"Full Cone or Restricted Cone", "Restricted Cone"}
        THEN "Full/Restricted Cone NAT"
    ELSE IF t = "Symmetric NAT" THEN "Symmetric NAT (STUN works, P2P hard)"
    ELSE IF t = "Port Restricted" THEN "Port Restricted NAT"
    ELSE "Restricted network (STUN works)"

formatNATType(t) ==
    IF t = "Full Cone or Restricted Cone" THEN "Full/Restricted Cone NAT"
    ELSE IF t = "Restricted Cone" THEN "Restricted Cone NAT"
    ELSE IF t = "Symmetric NAT" THEN "Symmetric NAT (STUN works, P2P hard)"
    ELSE IF t = "Port Restricted" THEN "Port Restricted NAT"
    ELSE IF t = "Unknown" THEN "Restricted network (STUN works)"
    ELSE "Restricted network (STUN works)"

(* mutant: IPv6 is preferred over IPv4 *)
udpNatTypeOf_v6First(r4, r6) ==
    IF r6 # NULL THEN r6[1].type
    ELSE IF r4 # NULL THEN r4[1].type
    ELSE "Unknown"

(* ipv4UdpResult?.type || ipv6UdpResult?.type || 'Unknown' *)
udpNatTypeOf(r4, r6) ==
    IF r4 # NULL THEN r4[1].type
    ELSE IF r6 # NULL THEN r6[1].type
    ELSE "Unknown"

(* ipv4TcpResult?.type || ipv6TcpResult?.type || null *)
tcpNatTypeOf(r4, r6) ==
    IF r4 # NULL THEN Some(r4[1].type)
    ELSE IF r6 # NULL THEN Some(r6[1].type)
    ELSE NULL

(* mutant: a reachable network without any classification and without a     *)
(* public IP is labelled firewalled as well                                  *)
NetworkTypeOf_unclassifiedFirewalled(reachable, publicIP, udpNatType, tcpNatType) ==
    IF Len(reachable) = 0 THEN Firewalled
    ELSE IF publicIP /\ udpNatType = "Unknown" /\ tcpNatType = NULL THEN PublicNetwork
    ELSE IF udpNatType = "Unknown" /\ tcpNatType = NULL THEN Firewalled
    ELSE LET udpType == formatNATType(udpNatType)
             tcpType == IF tcpNatType # NULL THEN Some(formatNATType(tcpNatType[1])) ELSE NULL
         IN  IF tcpType # NULL /\ udpType # tcpType[1]
             THEN <<"UDP ", udpType, ", TCP ", tcpType[1]>>
             ELSE IF tcpType # NULL THEN <<tcpType[1], " (TCP/UDP)">>
             ELSE <<udpType, " (UDP only)">>

(* mutant: the public-IP rule is tested before the reachability rule *)
NetworkTypeOf_publicFirst(reachable, publicIP, udpNatType, tcpNatType) ==
    IF publicIP /\ udpNatType = "Unknown" /\ tcpNatType = NULL THEN PublicNetwork
    ELSE IF Len(reachable) = 0 THEN Firewalled
    ELSE LET udpType == formatNATType(udpNatType)
             tcpType == IF tcpNatType # NULL THEN Some(formatNATType(tcpNatType[1])) ELSE NULL
         IN  IF tcpType # NULL /\ udpType # tcpType[1]
             THEN <<"UDP ", udpType, ", TCP ", tcpType[1]>>
             ELSE IF tcpType # NULL THEN <<tcpType[1], " (TCP/UDP)">>
             ELSE <<udpType, " (UDP only)">>

(* the if / else-if chain that sets networkType *)
NetworkTypeOf(reachable, publicIP, udpNatType, tcpNatType) ==
    IF Len(reachable) = 0 THEN Firewalled
    ELSE IF publicIP /\ udpNatType = "Unknown" /\ tcpNatType = NULL THEN PublicNetwork
    ELSE LET udpType == formatNATType(udpNatType)
             tcpType == IF tcpNatType # NULL THEN Some(formatNATType(tcpNatType[1])) ELSE NULL
         IN  IF tcpType # NULL /\ udpType # tcpType[1]
             THEN <<"UDP ", udpType, ", TCP ", tcpType[1]>>
             ELSE IF tcpType # NULL THEN <<tcpType[1], " (TCP/UDP)">>
             ELSE <<udpType, " (UDP only)">>

(* mutant: every collected address is tagged UDP *)
Tagged_udp(r, proto, version) ==
    IF r = NULL THEN <<>>
    ELSE [k \in 1..Len(r[1].mappedAddresses) |->
             [ip |-> r[1].mappedAddresses[k].ip,
              port |-> r[1].mappedAddresses[k].port,
              server |-> r[1].mappedAddresses[k].server,
              protocol |-> "UDP",
              ipVersion |-> version]]

(* step 8: the mapped addresses of the four results, tagged *)
Tagged(r, proto, version) ==
    IF r = NULL THEN <<>>
    ELSE [k \in 1..Len(r[1].mappedAddresses) |->
             [ip |-> r[1].mappedAddresses[k].ip,
              port |-> r[1].mappedAddresses[k].port,
              server |-> r[1].mappedAddresses[k].server,
              protocol |-> proto,
              ipVersion |-> version]]

(* mutant: the addresses of the TCP results are not collected *)
CollectMappedAddresses_udpOnly(results) ==
    Tagged(results[<<"UDP", "IPv4">>], "UDP", "IPv4")
        \o Tagged(results[<<"UDP", "IPv6">>], "UDP", "IPv6")

CollectMappedAddresses(results) ==
    Tagged(results[<<"UDP", "IPv4">>], "UDP", "IPv4")
        \o Tagged(results[<<"TCP", "IPv4">>], "TCP", "IPv4")
        \o Tagged(results[<<"UDP", "IPv6">>], "UDP", "IPv6")
        \o Tagged(results[<<"TCP", "IPv6">>], "TCP", "IPv6")

(* the object detectNetworkType returns *)
DetectionResult(networkType, udpNatType, tcpNatType, speedTests) ==
    [type |-> networkType,
     details |->
        [hasPublicIP |-> hasPublicIP,
         canReceiveFromAny |-> udpNatType \in {"Full Cone", "Full Cone or Restricted Cone"},
         canConnectToStun |-> Len(reachableServers) > 0,
         stunServersReachable |-> Len(reachableServers),
         ipv4 |-> [udp |-> natResults[<<"UDP", "IPv4">>],
                   tcp |-> natResults[<<"TCP", "IPv4">>],
                   udpCanConnect |-> natResults[<<"UDP", "IPv4">>] # NULL,
                   tcpCanConnect |-> natResults[<<"TCP", "IPv4">>] # NULL],
         ipv6 |-> [udp |-> natResults[<<"UDP", "IPv6">>],
                   tcp |-> natResults[<<"TCP", "IPv6">>],
                   udpCanConnect |-> natResults[<<"UDP", "IPv6">>] # NULL,
                   tcpCanConnect |-> natResults[<<"TCP", "IPv6">>] # NULL],
         udpNatType |-> udpNatType,
         tcpNatType |-> tcpNatType,
         udpCanConnect |-> canConnect.udp,
         tcpCanConnect |-> canConnect.tcp,
         speedTests |-> speedTests]]

-----------------------------------------------------------------------------
(* Spec: one detectNetworkType() run *)

SessionEvents == EventSeqs("IPv4") \cup EventSeqs("IPv6")

(* The mapping lists a detector of the run builds from its sessions: none,   *)
(* the first server only, every server with one address, every server with  *)
(* one IP and a port of its own for the later servers, a second IP for the   *)
(* later servers.                                                            *)
FirstIP(version) == IF version = "IPv6" THEN "2001:db8::5" ELSE "203.0.113.5"
SecondIP(version) == IF version = "IPv6" THEN "2001:db8::7" ELSE "198.51.100.7"

RunLists(servers, version) ==
    {<<>>,
     <<[ip |-> FirstIP(version), port |-> 40000, server |-> servers[1]]>>,
     [i \in 1..Len(servers) |->
         [ip |-> FirstIP(version), port |-> 40000, server |-> servers[i]]],
     [i \in 1..Len(servers) |->
         [ip |-> FirstIP(version), port |-> IF i = 1 THEN 40000 ELSE 51000,
          server |-> servers[i]]],
     [i \in 1..Len(servers) |->
         [ip |-> IF i = 1 THEN FirstIP(version) ELSE SecondIP(version), port |-> 40000,
          server |-> servers[i]]]}

(* The results the speed tests of a run deliver, in the order of the         *)
(* targets: all established, all failed, or the first failed alone.          *)
SpeedStatuses(n) ==
    {[k \in 1..n |-> "success"],
     [k \in 1..n |-> "failed"],
     [k \in 1..n |-> IF k = 1 THEN "failed" ELSE "success"]}

IdleClassify ==
    /\ protocol = "UDP"
    /\ ipVersion = "IPv4"
    /\ hostFamily = "IPv4"
    /\ mappedAddresses = <<>>
    /\ connectionResult = Pending
    /\ addresses = <<>>
    /\ natResult = NULL
    /\ dpc = "idle"

Init ==
    /\ stunServers \in Rosters
    /\ IdleProbe
    /\ IdleRest
    /\ IdleClassify
    /\ IdleSpeed
    /\ rpc = "reach"
    /\ reachNext = 1
    /\ reachableServers = <<>>
    /\ connectionResults = <<>>
    /\ canConnect = [udp |-> FALSE, tcp |-> FALSE]
    /\ hasPublicIP = FALSE
    /\ natDone = {}
    /\ natResults = [pair \in Pairs |-> NULL]
    /\ speedTargets = <<>>
    /\ record = NULL

(* testStunServers: one turn of the loop, await testStunServer(server) inside *)
(* try/catch; `thrown`: new RTCPeerConnection or createDataChannel threw in    *)
(* the executor, the promise rejected and the catch block logged it           *)
TestStunServer ==
    /\ rpc = "reach"
    /\ \E events \in SessionEvents, thrown \in BOOLEAN :
          reachableServers' =
              IF ~thrown /\ TestStunServerResult(events)
              THEN Append(reachableServers, stunServers[reachNext])
              ELSE reachableServers
    /\ IF reachNext = Len(stunServers)
       THEN /\ rpc' = "conn"
            /\ connectionResults' = [i \in 1..Len(stunServers) |-> Pending]
       ELSE UNCHANGED <<rpc, connectionResults>>
    /\ reachNext' = reachNext + 1
    /\ UNCHANGED <<stunServers, restVars, probeVars, classifyVars, speedVars, canConnect, hasPublicIP, natDone, natResults,
                   speedTargets, record>>

(* step 2: one testStunServerConnection session of the Promise.all *)
ConnectionSession(i) ==
    /\ rpc = "conn"
    /\ connectionResults[i] = Pending
    /\ \E events \in SessionEvents :
          connectionResults' =
              [connectionResults EXCEPT ![i] = Some(TestStunServerConnectionResult(events))]
    /\ UNCHANGED <<stunServers, restVars, probeVars, classifyVars, speedVars, rpc, reachNext, reachableServers, canConnect,
                   hasPublicIP, natDone, natResults, speedTargets, record>>

(* step 2: the executor of one testStunServerConnection throws (new           *)
(* RTCPeerConnection or createDataChannel): its promise rejects, the          *)
(* Promise.all rejects, and the await, which no try/catch encloses, rejects   *)
(* detectNetworkType                                                          *)
ConnectionSessionThrows(i) ==
    /\ rpc = "conn"
    /\ connectionResults[i] = Pending
    /\ rpc' = "rejected"
    /\ UNCHANGED <<stunServers, restVars, probeVars, classifyVars, speedVars, reachNext, reachableServers,
                   connectionResults, canConnect, hasPublicIP, natDone, natResults,
                   speedTargets, record>>

(* step 2 resumes: connectionResults.some(r => r.udp), .some(r => r.tcp) *)
ConnectionsJoined ==
    /\ rpc = "conn"
    /\ \A i \in 1..Len(stunServers) : connectionResults[i] # Pending
    /\ canConnect' =
          [udp |-> \E i \in 1..Len(stunServers) : connectionResults[i][1].udp,
           tcp |-> \E i \in 1..Len(stunServers) : connectionResults[i][1].tcp]
    /\ connectionResults' = <<>>
    /\ rpc' = "pub"
    /\ UNCHANGED <<stunServers, restVars, probeVars, classifyVars, speedVars, reachNext, reachableServers, hasPublicIP,
                   natDone, natResults, speedTargets, record>>

(* step 3: await this.detectPublicIP() *)
DetectPublicIP ==
    /\ rpc = "pub"
    /\ \E events \in SessionEvents : hasPublicIP' = DetectPublicIPResult(events)
    /\ rpc' = "nat"
    /\ UNCHANGED <<stunServers, restVars, probeVars, classifyVars, speedVars, reachNext, reachableServers, connectionResults,
                   canConnect, natDone, natResults, speedTargets, record>>

(* step 3: the executor of detectPublicIP throws; the promise is returned     *)
(* without await, so the try/catch around it does not see the rejection and   *)
(* detectNetworkType rejects                                                  *)
DetectPublicIPThrows ==
    /\ rpc = "pub"
    /\ rpc' = "rejected"
    /\ UNCHANGED <<stunServers, restVars, probeVars, classifyVars, speedVars, reachNext, reachableServers,
                   connectionResults, canConnect, hasPublicIP, natDone, natResults,
                   speedTargets, record>>

(* step 4: one of the four detectors of the Promise.all resolves; `thrown`:   *)
(* a session of the detector threw and its catch block returned null          *)
DetectorResolves(proto, version) ==
    /\ rpc = "nat"
    /\ <<proto, version>> \notin natDone
    /\ \E thrown \in BOOLEAN :
          IF thrown
          THEN natResults' = [natResults EXCEPT ![<<proto, version>>] = NULL]
          ELSE IF Len(stunServers) = 1
          THEN \E events \in SessionEvents :
                  natResults' =
                      [natResults EXCEPT ![<<proto, version>>] =
                          SingleServerResult(TestStunServerConnectionResult(events), proto)]
          ELSE \E list \in RunLists(stunServers, version) :
                  natResults' =
                      [natResults EXCEPT ![<<proto, version>>] =
                          DetectNATTypeFromAddresses(list, stunServers)]
    /\ natDone' = natDone \cup {<<proto, version>>}
    /\ UNCHANGED <<stunServers, restVars, probeVars, classifyVars, speedVars, rpc, reachNext, reachableServers,
                   connectionResults, canConnect, hasPublicIP, speedTargets, record>>

(* steps 5 to 8: the run resumes with the four results, sets networkType and *)
(* either starts the speed tests or returns                                  *)
Aggregate ==
    /\ rpc = "nat"
    /\ natDone = Pairs
    /\ LET udpNatType == udpNatTypeOf(natResults[<<"UDP", "IPv4">>], natResults[<<"UDP", "IPv6">>])
           tcpNatType == tcpNatTypeOf(natResults[<<"TCP", "IPv4">>], natResults[<<"TCP", "IPv6">>])
           networkType == NetworkTypeOf(reachableServers, hasPublicIP, udpNatType, tcpNatType)
           targets == CollectMappedAddresses(natResults)
       IN  IF Len(reachableServers) > 0 /\ (canConnect.udp \/ canConnect.tcp)
              /\ targets # <<>>
           THEN /\ speedTargets' = targets
                /\ rpc' = "speed"
                /\ UNCHANGED record
           ELSE /\ record' = Some(DetectionResult(networkType, udpNatType, tcpNatType, <<>>))
                /\ rpc' = "done"
                /\ UNCHANGED speedTargets
    /\ UNCHANGED <<stunServers, restVars, probeVars, classifyVars, speedVars, reachNext, reachableServers, connectionResults,
                   canConnect, hasPublicIP, natDone, natResults>>

(* step 8 resumes after Promise.all(speedTestPromises) and the run returns *)
SpeedTestsJoined ==
    /\ rpc = "speed"
    /\ \E statuses \in SpeedStatuses(Len(speedTargets)) :
          LET udpNatType == udpNatTypeOf(natResults[<<"UDP", "IPv4">>], natResults[<<"UDP", "IPv6">>])
              tcpNatType == tcpNatTypeOf(natResults[<<"TCP", "IPv4">>], natResults[<<"TCP", "IPv6">>])
              networkType == NetworkTypeOf(reachableServers, hasPublicIP, udpNatType, tcpNatType)
              speedTests == [k \in 1..Len(speedTargets) |->
                                [status |-> statuses[k], mappedAddress |-> speedTargets[k]]]
          IN  record' = Some(DetectionResult(networkType, udpNatType, tcpNatType, speedTests))
    /\ rpc' = "done"
    /\ UNCHANGED <<stunServers, restVars, probeVars, classifyVars, speedVars, reachNext, reachableServers, connectionResults,
                   canConnect, hasPublicIP, natDone, natResults, speedTargets>>

Next ==
    \/ TestStunServer
    \/ \E i \in 1..Len(stunServers) : ConnectionSession(i)
    \/ \E i \in 1..Len(stunServers) : ConnectionSessionThrows(i)
    \/ ConnectionsJoined
    \/ DetectPublicIP
    \/ DetectPublicIPThrows
    \/ \E proto \in Protocols, version \in IpVersions : DetectorResolves(proto, version)
    \/ Aggregate
    \/ SpeedTestsJoined

Spec == Init /\ [][Next]_vars

-----------------------------------------------------------------------------
(* Properties of the aggregator (Spec) *)

Returned == rpc = "done"

Classified(proto, version) == natResults[<<proto, version>>] # NULL

(* a transport yielded a classification: for IPv4 or for IPv6 *)
Yielded(proto) == Classified(proto, "IPv4") \/ Classified(proto, "IPv6")

BothLabel(udpCategory, tcpCategory) ==
    <<"UDP ", formatNATType(udpCategory), ", TCP ", formatNATType(tcpCategory)>>

UnifiedLabel(category) == <<formatNATType(category), " (TCP/UDP)">>

(* rule 3 decides: rule 1 and rule 2 did not apply *)
RuleThree ==
    /\ Len(reachableServers) > 0
    /\ record[1].type # PublicNetwork

(* C6: when no server is reachable the network type is the firewalled label, *)
(* whatever the public-IP flag and the four classifications are.             *)
C6_FirewalledWhenNoneReachable ==
    (Returned /\ record[1].details.stunServersReachable = 0)
        => record[1].type = Firewalled

(* no server reachable, yet a public IP and a UDP classification were seen *)
C6_Witness ==
    /\ Returned
    /\ Len(reachableServers) = 0
    /\ hasPublicIP
    /\ Classified("UDP", "IPv4")
    /\ record[1].type = Firewalled

C8_BothTransports ==
    (Returned /\ RuleThree /\ Yielded("UDP") /\ Yielded("TCP"))
        => LET udpCategory == record[1].details.udpNatType
               tcpCategory == record[1].details.tcpNatType[1]
           IN  /\ udpCategory # tcpCategory
                     <=> record[1].type = BothLabel(udpCategory, tcpCategory)
               /\ udpCategory = tcpCategory
                     => record[1].type = UnifiedLabel(udpCategory)

(* UDP 'Restricted Cone', TCP 'Full Cone or Restricted Cone': both are named *)
C8_Witness ==
    /\ Returned
    /\ RuleThree
    /\ Classified("UDP", "IPv4")
    /\ natResults[<<"UDP", "IPv4">>][1].type = "Restricted Cone"
    /\ Classified("TCP", "IPv4")
    /\ natResults[<<"TCP", "IPv4">>][1].type = "Full Cone or Restricted Cone"
    /\ record[1].type = BothLabel("Restricted Cone", "Full Cone or Restricted Cone")

(* C9: under rule 3, when only one transport yielded a classification, the   *)
(* label is that transport's category annotated as partial and names no      *)
(* category for the other transport.                                         *)
C9_PartialLabel ==
    (Returned /\ RuleThree /\ Yielded("UDP") # Yielded("TCP"))
        => LET category == IF Yielded("UDP")
                           THEN record[1].details.udpNatType
                           ELSE record[1].details.tcpNatType[1]
           IN  /\ Len(record[1].type) = 2
               /\ record[1].type[1] = formatNATType(category)
               /\ record[1].type[2] \in {" (UDP only)", " (TCP only)"}

-----------------------------------------------------------------------------
(* performSpeedTest *)

testDuration == 4000
sendCadence == 50
packetSize == 1024

(* receiveTimestamp - sentTimestamp of a payload, as the clock reads *)
Delays == {10, 30}

(* Math.round(a / b) for a >= 0, b > 0 *)
RoundDiv(a, b) == (2 * a + b) \div (2 * b)

(* A number the code rounds with Math.round(x * 100) / 100 (throughput,      *)
(* packetLoss) is kept as the integer Math.round(x * 100): hundredths.       *)
Hundredths(a, b) == RoundDiv(100 * a, b)

(* the measurements one closure owns *)
Counters == [packets |-> packets, latencies |-> latencies,
             totalBytesReceived |-> totalBytesReceived]

(* dataChannel2.onmessage: the responder receives a payload *)
OnMessage2(c, delay) ==
    [packets |-> [c.packets EXCEPT !.received = @ + 1],
     latencies |-> [count |-> c.latencies.count + 1, sum |-> c.latencies.sum + delay],
     totalBytesReceived |-> c.totalBytesReceived + packetSize]

(* mutant: the echo is counted as a received packet too *)
OnMessage1_counted(c, delay) ==
    [packets |-> [c.packets EXCEPT !.received = @ + 1],
     latencies |-> [count |-> c.latencies.count + 1, sum |-> c.latencies.sum + delay],
     totalBytesReceived |-> c.totalBytesReceived + packetSize]

(* dataChannel1.onmessage: the sender receives an echo *)
OnMessage1(c, delay) ==
    [packets |-> c.packets,
     latencies |-> [count |-> c.latencies.count + 1, sum |-> c.latencies.sum + delay],
     totalBytesReceived |-> c.totalBytesReceived + packetSize]

(* mutant: the failure object reports no loss *)
FailedResult_noLoss(mappedAddress) ==
    [latency |-> 0, throughput |-> 0, packetLoss |-> 0,
     status |-> "failed", packetsSent |-> 0, packetsReceived |-> 0,
     mappedAddress |-> mappedAddress]

(* the object the .catch() of the negotiation chain passes to finish; the    *)
(* catch block around performSpeedTest in detectNetworkType builds the same  *)
FailedResult(mappedAddress) ==
    [latency |-> 0, throughput |-> 0, packetLoss |-> Hundredths(100, 1),
     status |-> "failed", packetsSent |-> 0, packetsReceived |-> 0,
     mappedAddress |-> mappedAddress]

(* mutant: a measurement that reached its timeout is reported established *)
StatusOf_always(established) == "success"

(* status: connectionEstablished ? 'success' : 'failed' *)
StatusOf(established) == IF established THEN "success" ELSE "failed"

(* mutant: the loss is computed from the echoes the sender received back,    *)
(* latencies.length - packets.received of them                               *)
TimeoutResult_echoLoss(c, established, mappedAddress) ==
    [latency |-> IF c.latencies.count > 0
                 THEN RoundDiv(c.latencies.sum, c.latencies.count) ELSE 0,
     throughput |-> IF c.totalBytesReceived > 0
                    THEN Hundredths(c.totalBytesReceived * 1000, 1024 * testDuration) ELSE 0,
     packetLoss |-> IF c.packets.sent > 0
                    THEN Hundredths((c.packets.sent
                                       - (c.latencies.count - c.packets.received)) * 100,
                                    c.packets.sent)
                    ELSE Hundredths(100, 1),
     status |-> StatusOf(established),
     packetsSent |-> c.packets.sent,
     packetsReceived |-> c.packets.received,
     mappedAddress |-> mappedAddress]

(* the object the timeout callback passes to finish *)
TimeoutResult(c, established, mappedAddress) ==
    [latency |-> IF c.latencies.count > 0
                 THEN RoundDiv(c.latencies.sum, c.latencies.count) ELSE 0,
     throughput |-> IF c.totalBytesReceived > 0
                    THEN Hundredths(c.totalBytesReceived * 1000, 1024 * testDuration) ELSE 0,
     packetLoss |-> IF c.packets.sent > 0
                    THEN Hundredths((c.packets.sent - c.packets.received) * 100,
                                    c.packets.sent)
                    ELSE Hundredths(100, 1),
     status |-> StatusOf(established),
     packetsSent |-> c.packets.sent,
     packetsReceived |-> c.packets.received,
     mappedAddress |-> mappedAddress]

Closed(state) == IF state = "none" THEN "none" ELSE "closed"

(* mutant: finish resolves without closing the channels and the peers *)
Finish_channelsLeftOpen(result) ==
    /\ timeout' = FALSE
    /\ UNCHANGED <<dataChannel1, dataChannel2, peers, inflight>>
    /\ speedResult' = IF speedResult = NULL THEN Some(result) ELSE speedResult

(* finish(result): cleanup(), then resolve(); a promise keeps its first value *)
Finish(result) ==
    /\ timeout' = FALSE
    /\ dataChannel1' = Closed(dataChannel1)
    /\ dataChannel2' = Closed(dataChannel2)
    /\ peers' = [pc1 |-> Closed(peers.pc1), pc2 |-> Closed(peers.pc2)]
    /\ inflight' = [toResponder |-> 0, toSender |-> 0]
    /\ speedResult' = IF speedResult = NULL THEN Some(result) ELSE speedResult

SpeedTargets ==
    {[ip |-> "203.0.113.5", port |-> 40000, server |-> 1,
      protocol |-> "UDP", ipVersion |-> "IPv4"],
     [ip |-> "2001:db8::7", port |-> 51000, server |-> 2,
      protocol |-> "TCP", ipVersion |-> "IPv6"]}

(* mutant: the first roster server whatever the mapping names *)
StunServerFor_first(servers, mappedAddress) ==
    IF Len(servers) > 0 THEN Some(servers[1]) ELSE NULL

(* this.stunServers.find(s => s.name === mappedAddress.server)               *)
(*     || this.stunServers[0]                                                *)
StunServerFor(servers, mappedAddress) ==
    LET found == {i \in 1..Len(servers) : servers[i] = mappedAddress.server}
    IN  IF found # {}
        THEN Some(servers[CHOOSE i \in found : \A j \in found : i <= j])
        ELSE IF Len(servers) > 0 THEN Some(servers[1]) ELSE NULL

(* iceServers = stunServer ? [{ urls: stunServer.url }] : []; a roster       *)
(* server stands for its url                                                 *)
IceServersFor(servers, mappedAddress) ==
    LET stunServer == StunServerFor(servers, mappedAddress)
    IN  IF stunServer # NULL THEN <<[urls |-> stunServer[1]]>> ELSE <<>>

InitSpeed ==
    /\ stunServers = <<1, 2>>
    /\ IdleProbe
    /\ IdleRest
    /\ IdleClassify
    /\ IdleRun
    /\ spc = "start"
    /\ target \in {Some(t) : t \in SpeedTargets}
    /\ binaryType \in {"arraybuffer", "blob"}
    /\ negotiation = "pending"
    /\ connectionEstablished = FALSE
    /\ peers = [pc1 |-> "none", pc2 |-> "none"]
    /\ dataChannel1 = "none"
    /\ dataChannel2 = "none"
    /\ sendInterval = FALSE
    /\ stopTimer = FALSE
    /\ timeout = FALSE
    /\ packets = [sent |-> 0, received |-> 0]
    /\ latencies = [count |-> 0, sum |-> 0]
    /\ totalBytesReceived = 0
    /\ inflight = [toResponder |-> 0, toSender |-> 0]
    /\ speedResult = NULL
    /\ now = 0
    /\ connectionStartTime = 0
    /\ iceServers = <<>>

(* the promise executor runs to its end: both peers, the channel, the        *)
(* negotiation chain and the timeout timer exist                             *)
Setup ==
    /\ spc = "start"
    /\ spc' = "running"
    /\ iceServers' = IceServersFor(stunServers, target[1])
    /\ peers' = [pc1 |-> "open", pc2 |-> "open"]
    /\ dataChannel1' = "connecting"
    /\ timeout' = TRUE
    /\ UNCHANGED <<stunServers, restVars, probeVars, classifyVars, runVars, now, connectionStartTime, target, binaryType, negotiation,
                   connectionEstablished, dataChannel2, sendInterval, stopTimer, packets,
                   latencies, totalBytesReceived, inflight, speedResult>>

(* new RTCPeerConnection or createDataChannel throws inside the executor:    *)
(* the promise rejects and the catch block of detectNetworkType supplies the *)
(* result; cleanup is not called                                             *)
SetupThrows ==
    /\ spc = "start"
    /\ spc' = "threw"
    /\ iceServers' = IceServersFor(stunServers, target[1])
    /\ peers' \in {[pc1 |-> "none", pc2 |-> "none"],
                   [pc1 |-> "open", pc2 |-> "none"],
                   [pc1 |-> "open", pc2 |-> "open"]}
    /\ speedResult' = Some(FailedResult(target[1]))
    /\ UNCHANGED <<stunServers, restVars, probeVars, classifyVars, runVars, now, connectionStartTime, target, binaryType, negotiation,
                   connectionEstablished, dataChannel1, dataChannel2, sendInterval,
                   stopTimer, timeout, packets, latencies, totalBytesReceived, inflight>>

(* the createOffer ... setRemoteDescription chain rejects: .catch() *)
NegotiationFails ==
    /\ spc = "running"
    /\ negotiation = "pending"
    /\ negotiation' = "failed"
    /\ Finish(FailedResult(target[1]))
    /\ UNCHANGED <<stunServers, restVars, probeVars, classifyVars, runVars, iceServers, now, connectionStartTime, spc, target, binaryType,
                   connectionEstablished, sendInterval, stopTimer, packets, latencies,
                   totalBytesReceived>>

(* the chain fulfils *)
NegotiationCompletes ==
    /\ spc = "running"
    /\ negotiation = "pending"
    /\ peers.pc1 = "open" /\ peers.pc2 = "open"
    /\ negotiation' = "done"
    /\ UNCHANGED <<stunServers, restVars, probeVars, classifyVars, runVars, iceServers, now, connectionStartTime, spc, target, binaryType,
                   connectionEstablished, peers, dataChannel1, dataChannel2, sendInterval,
                   stopTimer, timeout, packets, latencies, totalBytesReceived, inflight,
                   speedResult>>

(* dataChannel1.onopen *)
OnOpen ==
    /\ spc = "running"
    /\ negotiation = "done"
    /\ dataChannel1 = "connecting"
    /\ dataChannel1' = "open"
    /\ IF ~connectionEstablished
       THEN /\ connectionEstablished' = TRUE
            /\ connectionStartTime' = now
            /\ sendInterval' = TRUE
            /\ stopTimer' = TRUE
       ELSE UNCHANGED <<connectionEstablished, connectionStartTime, sendInterval, stopTimer>>
    /\ UNCHANGED <<stunServers, restVars, probeVars, classifyVars, runVars, iceServers, now, spc, target, binaryType, negotiation,
                   peers, dataChannel2, timeout, packets, latencies, totalBytesReceived,
                   inflight, speedResult>>

(* pc2.ondatachannel: dataChannel2 = event.channel; setupDataChannel2() *)
OnDataChannel ==
    /\ spc = "running"
    /\ negotiation = "done"
    /\ peers.pc2 = "open"
    /\ dataChannel2 = "none"
    /\ dataChannel2' = "open"
    /\ UNCHANGED <<stunServers, restVars, probeVars, classifyVars, runVars, iceServers, now, connectionStartTime, spc, target, binaryType, negotiation,
                   connectionEstablished, peers, dataChannel1, sendInterval, stopTimer,
                   timeout, packets, latencies, totalBytesReceived, inflight, speedResult>>

(* the setInterval callback: send one payload, or clear the interval when    *)
(* dataChannel1 is gone or not open; send() may throw                        *)
SendTick ==
    /\ spc = "running"
    /\ sendInterval
    /\ IF dataChannel1 = "open"
       THEN \/ /\ packets.sent < MaxSent
               /\ packets' = [packets EXCEPT !.sent = @ + 1]
               /\ inflight' = [inflight EXCEPT !.toResponder = @ + 1]
               /\ UNCHANGED sendInterval
            \/ UNCHANGED <<packets, inflight, sendInterval>>
       ELSE /\ sendInterval' = FALSE
            /\ UNCHANGED <<packets, inflight>>
    /\ UNCHANGED <<stunServers, restVars, probeVars, classifyVars, runVars, iceServers, now, connectionStartTime, spc, target, binaryType, negotiation,
                   connectionEstablished, peers, dataChannel1, dataChannel2, stopTimer,
                   timeout, latencies, totalBytesReceived, speedResult>>

(* the setTimeout(testDuration) of onopen: clearInterval(sendInterval) *)
StopSending ==
    /\ spc = "running"
    /\ stopTimer
    /\ now >= connectionStartTime + testDuration
    /\ stopTimer' = FALSE
    /\ sendInterval' = FALSE
    /\ UNCHANGED <<stunServers, restVars, probeVars, classifyVars, runVars, iceServers, now, connectionStartTime, spc, target, binaryType, negotiation,
                   connectionEstablished, peers, dataChannel1, dataChannel2, timeout,
                   packets, latencies, totalBytesReceived, inflight, speedResult>>

(* a payload reaches the responder: dataChannel2.onmessage, which echoes it  *)
(* (the echo's send() may throw)                                             *)
ResponderReceives ==
    /\ spc = "running"
    /\ dataChannel2 = "open"
    /\ inflight.toResponder > 0
    /\ IF binaryType = "arraybuffer"
       THEN /\ \E delay \in Delays :
                  LET c == OnMessage2(Counters, delay)
                  IN  /\ packets' = c.packets
                      /\ latencies' = c.latencies
                      /\ totalBytesReceived' = c.totalBytesReceived
            /\ \E echoed \in BOOLEAN :
                  inflight' = [toResponder |-> inflight.toResponder - 1,
                               toSender |-> inflight.toSender + (IF echoed THEN 1 ELSE 0)]
       ELSE /\ inflight' = [inflight EXCEPT !.toResponder = @ - 1]
            /\ UNCHANGED <<packets, latencies, totalBytesReceived>>
    /\ UNCHANGED <<stunServers, restVars, probeVars, classifyVars, runVars, iceServers, now, connectionStartTime, spc, target, binaryType, negotiation,
                   connectionEstablished, peers, dataChannel1, dataChannel2, sendInterval,
                   stopTimer, timeout, speedResult>>

(* an echo reaches the sender: dataChannel1.onmessage *)
SenderReceives ==
    /\ spc = "running"
    /\ dataChannel1 = "open"
    /\ inflight.toSender > 0
    /\ inflight' = [inflight EXCEPT !.toSender = @ - 1]
    /\ IF binaryType = "arraybuffer"
       THEN \E delay \in Delays :
               LET c == OnMessage1(Counters, delay)
               IN  /\ packets' = c.packets
                   /\ latencies' = c.latencies
                   /\ totalBytesReceived' = c.totalBytesReceived
       ELSE UNCHANGED <<packets, latencies, totalBytesReceived>>
    /\ UNCHANGED <<stunServers, restVars, probeVars, classifyVars, runVars, iceServers, now, connectionStartTime, spc, target, binaryType, negotiation,
                   connectionEstablished, peers, dataChannel1, dataChannel2, sendInterval,
                   stopTimer, timeout, speedResult>>

(* the path breaks: both channels close and what was in flight is lost *)
ConnectionLost ==
    /\ spc = "running"
    /\ dataChannel1 = "open"
    /\ dataChannel1' = "closed"
    /\ dataChannel2' = Closed(dataChannel2)
    /\ inflight' = [toResponder |-> 0, toSender |-> 0]
    /\ UNCHANGED <<stunServers, restVars, probeVars, classifyVars, runVars, iceServers, now, connectionStartTime, spc, target, binaryType, negotiation,
                   connectionEstablished, peers, sendInterval, stopTimer, timeout, packets,
                   latencies, totalBytesReceived, speedResult>>

(* the setTimeout(testDuration + 2000) callback *)
Timeout ==
    /\ spc = "running"
    /\ timeout
    /\ now >= testDuration + 2000
    /\ Finish(TimeoutResult(Counters, connectionEstablished, target[1]))
    /\ UNCHANGED <<stunServers, restVars, probeVars, classifyVars, runVars, iceServers, now, connectionStartTime, spc, target, binaryType, negotiation,
                   connectionEstablished, sendInterval, stopTimer, packets, latencies,
                   totalBytesReceived>>

(* The instants of the clock at which the events of a measurement happen:   *)
(* the start, inside the test window, its end, inside the 2000 ms buffer,    *)
(* the timeout, and after it.                                                *)
Instants == {0, 1000, 4000, 5000, 6000, 9000}

(* a timer that is due runs before the clock reads a later instant *)
TimerDue ==
    \/ timeout /\ now >= testDuration + 2000
    \/ stopTimer /\ now >= connectionStartTime + testDuration

(* time passes: Date.now() reads the next instant *)
TimePasses ==
    /\ spc = "running"
    /\ ~TimerDue
    /\ \E t \in Instants :
          /\ t > now
          /\ \A u \in Instants : u > now => t <= u
          /\ now' = t
    /\ UNCHANGED <<stunServers, restVars, probeVars, classifyVars, runVars, iceServers, connectionStartTime, spc, target,
                   binaryType, negotiation, connectionEstablished, peers, dataChannel1,
                   dataChannel2, sendInterval, stopTimer, timeout, packets, latencies,
                   totalBytesReceived, inflight, speedResult>>

NextSpeed ==
    \/ TimePasses
    \/ Setup
    \/ SetupThrows
    \/ NegotiationFails
    \/ NegotiationCompletes
    \/ OnOpen
    \/ OnDataChannel
    \/ SendTick
    \/ StopSending
    \/ ResponderReceives
    \/ SenderReceives
    \/ ConnectionLost
    \/ Timeout

SpecSpeed == InitSpeed /\ [][NextSpeed]_vars

-----------------------------------------------------------------------------
(* Properties of the measurement (SpecSpeed) *)

(* C10: every result a measurement delivers has packetsReceived at most      *)
(* packetsSent and a packetLoss between 0 and 100 percent, on every exit     *)
(* path and for every interleaving of send, receive, echo and timer events.  *)
C10_ReceivedAtMostSent ==
    speedResult # NULL
        => /\ speedResult[1].packetsReceived <= speedResult[1].packetsSent
           /\ 0 <= speedResult[1].packetLoss
           /\ speedResult[1].packetLoss <= Hundredths(100, 1)

(* three payloads sent, two received and echoed before the window expired *)
C10_Witness ==
    /\ speedResult # NULL
    /\ speedResult[1].status = "success"
    /\ speedResult[1].packetsSent = 3
    /\ speedResult[1].packetsReceived = 2
    /\ speedResult[1].packetLoss = 3333
    /\ latencies.count = 4

(* Every latency sample is pushed by one of the two onmessage handlers, and  *)
(* dataChannel2.onmessage alone counts packets.received: the samples beyond  *)
(* packets.received are the echoes dataChannel1.onmessage accepted.          *)
EchoesReceived == latencies.count - packets.received

(* (sent - received) / sent * 100, or 100 when nothing was sent, in hundredths *)
LossOf(sent, received) ==
    IF sent > 0 THEN Hundredths((sent - received) * 100, sent) ELSE Hundredths(100, 1)

(* C11 as claimed: the packet loss of a delivered result is computed from    *)
(* the echoes the original sender received back, (S - E) / S * 100, and is   *)
(* 100 when nothing was sent.                                                *)
C11_LossFromEchoes ==
    speedResult # NULL
        => speedResult[1].packetLoss = LossOf(speedResult[1].packetsSent, EchoesReceived)

(* C11 amended: the packet loss of a delivered result is computed from the   *)
(* payloads the responding peer received (packetsReceived), whatever number  *)
(* of echoes came back to the sender: (S - R) / S * 100, and 100 when        *)
(* nothing was sent; 80 sent and 76 received give 5.00 with status success.  *)
C11_LossFromReceipts ==
    /\ speedResult # NULL
          => /\ speedResult[1].packetsSent = packets.sent
             /\ speedResult[1].packetsReceived = packets.received
             /\ speedResult[1].packetLoss = LossOf(packets.sent, packets.received)
             /\ packets.sent = 0 => speedResult[1].packetLoss = Hundredths(100, 1)
    /\ LET scenario == TimeoutResult([packets |-> [sent |-> 80, received |-> 76],
                                      latencies |-> [count |-> 0, sum |-> 0],
                                      totalBytesReceived |-> 0],
                                     TRUE, NULL)
       IN  scenario.packetLoss = 500 /\ scenario.status = "success"

(* three sent, two reached the responder, one echo came back: the loss is    *)
(* 33.33, not 66.67                                                          *)
C11_Witness ==
    /\ speedResult # NULL
    /\ speedResult[1].status = "success"
    /\ speedResult[1].packetsSent = 3
    /\ speedResult[1].packetsReceived = 2
    /\ EchoesReceived = 1
    /\ speedResult[1].packetLoss = 3333

(* the data path opened: dataChannel1.onopen ran, at connectionStartTime *)
PathOpened == connectionEstablished

(* C12 as claimed: a delivered result has status 'success' exactly when the  *)
(* data path opened before the 4000 ms test window elapsed; a path that      *)
(* never opened, or opened only after the window, is reported 'failed'.      *)
C12_EstablishedInWindow ==
    speedResult # NULL
        => (speedResult[1].status = "success"
              <=> (PathOpened /\ connectionStartTime < testDuration))

(* C12 amended: a delivered result has status 'success' exactly when the     *)
(* data path opened before the timeout callback ran, testDuration + 2000 ms  *)
(* after the start: a path that opened inside the 2000 ms buffer after the   *)
(* test window is reported 'success' too; a path that never opened, a        *)
(* failed negotiation and a failed construction are reported 'failed'.       *)
C12_EstablishedBeforeTimeout ==
    speedResult # NULL
        => /\ speedResult[1].status = "success" <=> PathOpened
           /\ speedResult[1].status \in {"success", "failed"}
           /\ PathOpened => connectionStartTime <= testDuration + 2000

(* the path opened 5000 ms after the start and the result is 'success' *)
C12_Witness ==
    /\ speedResult # NULL
    /\ PathOpened
    /\ connectionStartTime = 5000
    /\ speedResult[1].status = "success"
    /\ speedResult[1].packetsSent > 0

(* C13: every delivered result with status 'failed' reports latency 0,       *)
(* throughput 0, packetLoss 100, packetsSent 0 and packetsReceived 0, and a  *)
(* measurement whose construction threw still delivers a result value to     *)
(* the run.                                                                  *)
C13_FailedIsZeroed ==
    /\ (speedResult # NULL /\ speedResult[1].status = "failed")
          => /\ speedResult[1].latency = 0
             /\ speedResult[1].throughput = 0
             /\ speedResult[1].packetLoss = Hundredths(100, 1)
             /\ speedResult[1].packetsSent = 0
             /\ speedResult[1].packetsReceived = 0
    /\ spc = "threw" => (speedResult # NULL /\ speedResult[1].status = "failed")
    /\ negotiation = "failed" => (speedResult # NULL /\ speedResult[1].status = "failed")

(* the negotiation completed, the path never opened and the timeout fired *)
C13_Witness ==
    /\ speedResult # NULL
    /\ speedResult[1].status = "failed"
    /\ negotiation = "done"
    /\ ~connectionEstablished
    /\ now >= testDuration + 2000
    /\ speedResult[1].packetLoss = Hundredths(100, 1)

-----------------------------------------------------------------------------
(* Properties of the run's error handling (Spec) *)

(* C14: a construction failure or a negotiation failure in a single probe or *)
(* measurement never makes detectNetworkType reject: the run is never in     *)
(* the rejected state.                                                       *)
C14_RunNeverRejects == rpc # "rejected"

-----------------------------------------------------------------------------
(* SpecProbe: one session of a rendezvous probe, event by event.  The five   *)
(* probes share one skeleton (timer, peer connection, offer, onicecandidate, *)
(* finish); the onicecandidate handlers differ.                              *)

ProbeKinds == {"getMappedAddress", "testStunServerConnection", "detectPublicIP",
               "getPublicIPFromStun", "getLocalIP"}

(* the candidate lines a session may deliver *)
ProbeCandidates ==
    {[typ |-> "srflx", protocol |-> "UDP", ip |-> "203.0.113.5", port |-> 40000, raddr |-> NULL],
     [typ |-> "srflx", protocol |-> "UDP", ip |-> "203.0.113.5", port |-> 40000,
      raddr |-> Some(MaskedAddress)],
     [typ |-> "srflx", protocol |-> "TCP", ip |-> "203.0.113.5", port |-> 51000, raddr |-> NULL],
     [typ |-> "srflx", protocol |-> "TCP", ip |-> "203.0.113.5", port |-> 0, raddr |-> NULL],
     [typ |-> "srflx", protocol |-> "UDP", ip |-> PrivateIPv4, port |-> 40000, raddr |-> NULL],
     [typ |-> "srflx", protocol |-> "UDP", ip |-> LoopbackIPv4, port |-> 40000, raddr |-> NULL],
     [typ |-> "srflx", protocol |-> "UDP", ip |-> PublicIPv4With10, port |-> 40000, raddr |-> NULL],
     [typ |-> "srflx", protocol |-> "UDP", ip |-> "2001:db8::5", port |-> 40000, raddr |-> NULL],
     [typ |-> "srflx", protocol |-> "TCP", ip |-> "2001:db8::5", port |-> 51000, raddr |-> NULL],
     [typ |-> "srflx", protocol |-> "UDP", ip |-> UniqueLocalIPv6, port |-> 40000, raddr |-> NULL],
     [typ |-> "host", protocol |-> "UDP", ip |-> LocalIPv4, port |-> 50000, raddr |-> NULL],
     [typ |-> "host", protocol |-> "TCP", ip |-> LocalIPv6, port |-> 50000, raddr |-> NULL],
     [typ |-> "relay", protocol |-> "UDP", ip |-> "198.51.100.7", port |-> 40000,
      raddr |-> Some("203.0.113.5")]}

(* ip.startsWith(p) for one of the listed p of getPublicIPFromStun, or ip    *)
(* equal to '0.0.0.0' or '255.255.255.255'                                   *)
StartsWithListed(ip) == ip \in {LocalIPv4, PrivateIPv4, LoopbackIPv4, MaskedAddress}

(* candidate.match(/([0-9]{1,3}\.){3}[0-9]{1,3}/): the first dotted quad of  *)
(* the line, which is parts[4] for an IPv4 candidate and the related         *)
(* address, when it is a dotted quad, for an IPv6 one                        *)
FirstDottedQuad(c) ==
    IF ~isIPv6(c.ip) THEN Some(c.ip)
    ELSE IF RelatedOf(c) # NULL /\ ~isIPv6(RelatedOf(c)[1]) THEN RelatedOf(c)
    ELSE NULL

(* the regular expression of getLocalIP matches the text: an address of      *)
(* 192.168/16, 10/8, 172.16/12, 169.254/16 or 127/8                          *)
MatchesLocalIP(text) == text \in {LocalIPv4, PrivateIPv4, LoopbackIPv4}

(* candidate.match(localIP pattern): the first match in the line *)
LocalIPMatch(c) ==
    IF MatchesLocalIP(c.ip) THEN Some(c.ip)
    ELSE IF RelatedOf(c) # NULL /\ MatchesLocalIP(RelatedOf(c)[1]) THEN RelatedOf(c)
    ELSE NULL

(* the accumulator a closure starts with *)
InitialGathered(kind) ==
    IF kind = "getMappedAddress" THEN EmptyAddresses
    ELSE IF kind = "testStunServerConnection" THEN [udp |-> FALSE, tcp |-> FALSE]
    ELSE NULL

(* mutant: detectPublicIP answers true when nothing decided it *)
DefaultResult_public(kind, acc) ==
    IF kind \in {"getMappedAddress", "testStunServerConnection"} THEN acc
    ELSE IF kind = "detectPublicIP" THEN TRUE
    ELSE NULL

(* what finish resolves with on gathering complete, offer failure or         *)
(* timeout: addresses, {udp, tcp}, false, null, null                         *)
DefaultResult(kind, acc) ==
    IF kind \in {"getMappedAddress", "testStunServerConnection"} THEN acc
    ELSE IF kind = "detectPublicIP" THEN FALSE
    ELSE NULL

(* pc.onicecandidate for a non-null candidate: the accumulator after it, and *)
(* whether the handler calls finish, with what                               *)
HandlerOutcome(kind, acc, c) ==
    IF kind = "getMappedAddress"
        THEN [acc |-> MappedOnIceCandidate(acc, c), finish |-> FALSE, value |-> NULL]
    ELSE IF kind = "testStunServerConnection"
        THEN [acc |-> ConnectionOnIceCandidate(acc, c), finish |-> FALSE, value |-> NULL]
    ELSE IF kind = "detectPublicIP"
        THEN IF c.typ = "srflx" /\ c.protocol = "UDP"
             THEN [acc |-> acc, finish |-> TRUE, value |-> ~IsPrivateCandidate(c)]
             ELSE [acc |-> acc, finish |-> FALSE, value |-> NULL]
    ELSE IF kind = "getPublicIPFromStun"
        THEN IF /\ c.typ = "srflx" /\ c.protocol = "UDP"
                /\ FirstDottedQuad(c) # NULL
                /\ ~StartsWithListed(FirstDottedQuad(c)[1])
             THEN [acc |-> acc, finish |-> TRUE, value |-> FirstDottedQuad(c)]
             ELSE [acc |-> acc, finish |-> FALSE, value |-> NULL]
    ELSE IF LocalIPMatch(c) # NULL
             THEN [acc |-> acc, finish |-> TRUE, value |-> LocalIPMatch(c)]
             ELSE [acc |-> acc, finish |-> FALSE, value |-> NULL]

InitProbe ==
    /\ stunServers = <<1, 2>>
    /\ IdleClassify
    /\ IdleRun
    /\ IdleSpeed
    /\ IdleRest
    /\ probe \in ProbeKinds
    /\ ppc = "start"
    /\ resolved = FALSE
    /\ pc = "none"
    /\ probeTimer = FALSE
    /\ offer = "pending"
    /\ gathering = "new"
    /\ gathered = InitialGathered(probe)
    /\ seen = <<>>
    /\ probeResult = NULL
    /\ elapsed = 0

(* finish(value): if (resolved) return; resolved = true; cleanup();          *)
(* resolve(value) -- which a promise that already rejected ignores           *)
ProbeFinish(value) ==
    IF resolved
    THEN UNCHANGED <<resolved, probeTimer, pc, probeResult>>
    ELSE /\ resolved' = TRUE
         /\ probeTimer' = FALSE
         /\ pc' = IF pc = "none" THEN "none" ELSE "closed"
         /\ probeResult' = IF ppc = "threw" THEN probeResult ELSE Some(value)

(* the executor runs to its end: timer armed, connection and data channel    *)
(* created, offer requested, handler installed                               *)
ProbeStart ==
    /\ ppc = "start"
    /\ ppc' = "running"
    /\ probeTimer' = TRUE
    /\ pc' = "open"
    /\ UNCHANGED <<stunServers, restVars, classifyVars, runVars, speedVars, probe, resolved, offer,
                   gathering, gathered, seen, probeResult, elapsed>>

(* new RTCPeerConnection or createDataChannel throws after the timer was     *)
(* armed: the promise rejects                                                *)
ProbeThrows ==
    /\ ppc = "start"
    /\ ppc' = "threw"
    /\ probeTimer' = TRUE
    /\ pc' \in {"none", "open"}
    /\ UNCHANGED <<stunServers, restVars, classifyVars, runVars, speedVars, probe, resolved, offer,
                   gathering, gathered, seen, probeResult, elapsed>>

(* createOffer().then(setLocalDescription) fulfils: gathering starts *)
OfferSucceeds ==
    /\ ppc = "running"
    /\ pc = "open"
    /\ offer = "pending"
    /\ offer' = "done"
    /\ gathering' = "gathering"
    /\ UNCHANGED <<stunServers, restVars, classifyVars, runVars, speedVars, probe, ppc, resolved, pc,
                   probeTimer, gathered, seen, probeResult, elapsed>>

(* the chain rejects: .catch(() => finish(...)) *)
OfferFails ==
    /\ ppc = "running"
    /\ offer = "pending"
    /\ offer' = "failed"
    /\ ProbeFinish(DefaultResult(probe, gathered))
    /\ UNCHANGED <<stunServers, restVars, classifyVars, runVars, speedVars, probe, ppc, gathering,
                   gathered, seen, elapsed>>

(* pc.onicecandidate with a candidate *)
OnIceCandidate ==
    /\ ppc = "running"
    /\ pc = "open"
    /\ gathering = "gathering"
    /\ Len(seen) < MaxEvents
    /\ \E c \in ProbeCandidates :
          LET outcome == HandlerOutcome(probe, gathered, c)
          IN  /\ seen' = Append(seen, c)
              /\ gathered' = outcome.acc
              /\ IF outcome.finish
                 THEN ProbeFinish(outcome.value)
                 ELSE UNCHANGED <<resolved, probeTimer, pc, probeResult>>
    /\ UNCHANGED <<stunServers, restVars, classifyVars, runVars, speedVars, probe, ppc, offer,
                   gathering, elapsed>>

(* pc.onicecandidate with the null candidate: gathering is complete *)
GatheringComplete ==
    /\ ppc = "running"
    /\ pc = "open"
    /\ gathering = "gathering"
    /\ gathering' = "complete"
    /\ ProbeFinish(DefaultResult(probe, gathered))
    /\ UNCHANGED <<stunServers, restVars, classifyVars, runVars, speedVars, probe, ppc, offer,
                   gathered, seen, elapsed>>

(* the setTimeout(5000) callback *)
ProbeTimeout ==
    /\ ppc \in {"running", "threw"}
    /\ probeTimer
    /\ elapsed >= 5000
    /\ ProbeFinish(DefaultResult(probe, gathered))
    /\ UNCHANGED <<stunServers, restVars, classifyVars, runVars, speedVars, probe, ppc, offer,
                   gathering, gathered, seen, elapsed>>

(* the instants at which the events of a session happen *)
ProbeInstants == {0, 1000, 5000, 6000}

(* time passes; a timer that is due runs first *)
ProbeTimePasses ==
    /\ ppc \in {"running", "threw"}
    /\ ~(probeTimer /\ elapsed >= 5000)
    /\ \E t \in ProbeInstants :
          /\ t > elapsed
          /\ \A u \in ProbeInstants : u > elapsed => t <= u
          /\ elapsed' = t
    /\ UNCHANGED <<stunServers, restVars, classifyVars, runVars, speedVars, probe, ppc, resolved, pc,
                   probeTimer, offer, gathering, gathered, seen, probeResult>>

NextProbe ==
    \/ ProbeStart
    \/ ProbeThrows
    \/ OfferSucceeds
    \/ OfferFails
    \/ OnIceCandidate
    \/ GatheringComplete
    \/ ProbeTimeout
    \/ ProbeTimePasses

SpecProbe == InitProbe /\ [][NextProbe]_vars

-----------------------------------------------------------------------------
(* Properties of a probe session (SpecProbe) *)

(* the promise settled: it resolved with a value or it rejected *)
Settled == probeResult # NULL \/ ppc = "threw"

(* a candidate the handler of the probe acts on *)
Accepted(kind, c) ==
    IF kind = "getLocalIP" THEN LocalIPMatch(c) # NULL
    ELSE c.typ = "srflx"

NothingAccepted == \A k \in 1..Len(seen) : ~Accepted(probe, seen[k])

(* the absent value of a probe: every slot null, both flags false, false, null *)
AbsentValue(kind) ==
    IF kind = "getMappedAddress" THEN EmptyAddresses
    ELSE IF kind = "testStunServerConnection" THEN [udp |-> FALSE, tcp |-> FALSE]
    ELSE IF kind = "detectPublicIP" THEN FALSE
    ELSE NULL

(* C15: every probe session has settled once more than 5000 ms have passed,  *)
(* whether the transport signalled the end of gathering or not, and a        *)
(* session that resolved without having accepted a candidate resolved with   *)
(* the absent value of its probe.                                            *)
C15_SettledByTimeout ==
    /\ elapsed > 5000 => Settled
    /\ (probeResult # NULL /\ NothingAccepted) => probeResult = Some(AbsentValue(probe))

(* gathering never completed and nothing arrived: the timer resolved the probe *)
C15_Witness ==
    /\ probe = "getMappedAddress"
    /\ elapsed = 5000
    /\ gathering = "gathering"
    /\ seen = <<>>
    /\ probeResult = Some(EmptyAddresses)

(* a candidate of seen is externally mapped, of the transport and the family *)
(* of the slot, and carries the address the slot holds                       *)
ObservedFor(slot, proto, version) ==
    \E k \in 1..Len(seen) :
        /\ seen[k].typ = "srflx"
        /\ seen[k].protocol = proto
        /\ isIPv6(seen[k].ip) <=> version = "IPv6"
        /\ slot = Some([ip |-> seen[k].ip, port |-> seen[k].port])

(* the session ended for a reason other than a candidate *)
EndedWithoutCandidate == gathering = "complete" \/ offer = "failed" \/ elapsed >= 5000

(* C16: a slot of getMappedAddress holds only the address of a candidate     *)
(* tagged srflx of the slot's transport and family, and a flag of            *)
(* testStunServerConnection is set only by a srflx candidate of its          *)
(* transport; host and relay candidates leave the accumulator as it is and   *)
(* never end a session of a rendezvous probe: the two collectors end only on *)
(* gathering complete, offer failure or timeout, and detectPublicIP and      *)
(* getPublicIPFromStun end early only on a srflx candidate.                  *)
C16_OnlySrflxAccepted ==
    /\ probe = "getMappedAddress" =>
          \A proto \in Protocols, version \in IpVersions :
              SlotOf(gathered, proto, version) # NULL
                  => ObservedFor(SlotOf(gathered, proto, version), proto, version)
    /\ probe = "testStunServerConnection" =>
          /\ gathered.udp => \E k \in 1..Len(seen) :
                                 seen[k].typ = "srflx" /\ seen[k].protocol = "UDP"
          /\ gathered.tcp => \E k \in 1..Len(seen) :
                                 seen[k].typ = "srflx" /\ seen[k].protocol = "TCP"
    /\ (probe \in {"getMappedAddress", "testStunServerConnection"} /\ probeResult # NULL)
          => EndedWithoutCandidate
    /\ (probe \in {"detectPublicIP", "getPublicIPFromStun"} /\ probeResult # NULL
            /\ ~EndedWithoutCandidate)
          => (seen # <<>> /\ seen[Len(seen)].typ = "srflx")
    /\ (probe # "getLocalIP" /\ \A k \in 1..Len(seen) : seen[k].typ \in {"host", "relay"})
          => /\ gathered = InitialGathered(probe)
             /\ probeResult # NULL => probeResult = Some(AbsentValue(probe))
             /\ ppc = "running" => ~(probeResult = NULL /\ resolved)

(* a host and a relay candidate arrived: nothing stored, the session goes on *)
C16_Witness ==
    /\ probe = "getMappedAddress"
    /\ Len(seen) = 2
    /\ seen[1].typ = "host"
    /\ seen[2].typ = "relay"
    /\ gathered = EmptyAddresses
    /\ probeResult = NULL
    /\ pc = "open"

(* the address is private (10/8, 172.16/12, 192.168/16, fc00::/7), loopback  *)
(* (127/8, ::1), link-local (169.254/16, fe80::/10) or a broadcast or        *)
(* unspecified address                                                       *)
IsPrivateAddress(ip) ==
    ip \in {LocalIPv4, LocalIPv6, PrivateIPv4, LoopbackIPv4, UniqueLocalIPv6, MaskedAddress}

(* C17: the collector never records a private, loopback, link-local or       *)
(* broadcast address as a mapped address: no slot of getMappedAddress holds  *)
(* one, whatever srflx candidates the session delivered.                     *)
C17_PrivateNeverMapped ==
    probe = "getMappedAddress" =>
        \A proto \in Protocols, version \in IpVersions :
            SlotOf(gathered, proto, version) # NULL
                => ~IsPrivateAddress(SlotOf(gathered, proto, version)[1].ip)

-----------------------------------------------------------------------------
(* Attribution of mapped addresses (SpecClassify) *)

(* the field of a resolved addresses object for a transport and a family *)
FieldOf(object, proto, version) ==
    object[IF version = "IPv6" THEN "ipv6" ELSE "ipv4"][IF proto = "TCP" THEN "tcp" ELSE "udp"]

(* sessions that deliver candidates of both families *)
MixedEventSeqs == SeqsUpTo(Candidates("IPv4") \cup Candidates("IPv6"), MaxEvents)

(* what a session stored for (proto, version) is the address of one of its   *)
(* srflx candidates of that transport and that family                        *)
StoredAsObserved(events) ==
    \A proto \in Protocols, version \in IpVersions :
        LET slot == FieldOf(GetMappedAddressResult(events), proto, version)
        IN  slot # NULL =>
               \E k \in 1..Len(events) :
                   /\ events[k].typ = "srflx"
                   /\ events[k].protocol = proto
                   /\ isIPv6(events[k].ip) <=> version = "IPv6"
                   /\ slot = Some([ip |-> events[k].ip, port |-> events[k].port])

(* the speed-test targets step 8 builds from the detector's result *)
TargetsOfResult ==
    CollectMappedAddresses([pair \in Pairs |->
                               IF pair = <<protocol, ipVersion>> THEN natResult ELSE NULL])

(* C18: every mapped address in the evidence of the classification of a      *)
(* (transport, family) pair is the address the named server's session stored *)
(* for that transport and that family, which is the address of a srflx       *)
(* candidate of that transport and family; its address is of the pair's      *)
(* family; and the speed-test target built from it carries the pair's        *)
(* transport and family.                                                     *)
C18_EvidenceOfOwnPair ==
    /\ (dpc = "probing" /\ \A i \in 1..Len(stunServers) : mappedAddresses[i] = Pending)
          => \A events \in MixedEventSeqs : StoredAsObserved(events)
    /\ (dpc = "done" /\ natResult # NULL) =>
          LET evidence == natResult[1].mappedAddresses
              targets == TargetsOfResult
          IN  /\ Len(targets) = Len(evidence)
              /\ \A k \in 1..Len(evidence) :
                    /\ isIPv6(evidence[k].ip) <=> ipVersion = "IPv6"
                    /\ \E i \in 1..Len(stunServers) :
                          /\ stunServers[i] = evidence[k].server
                          /\ FieldOf(mappedAddresses[i][1], protocol, ipVersion)
                                = Some([ip |-> evidence[k].ip, port |-> evidence[k].port])
                    /\ targets[k] = [ip |-> evidence[k].ip, port |-> evidence[k].port,
                                     server |-> evidence[k].server,
                                     protocol |-> protocol, ipVersion |-> ipVersion]

(* both servers delivered a UDP and a TCP mapping; the TCP detector keeps    *)
(* the TCP ones                                                              *)
C18_Witness ==
    /\ dpc = "done"
    /\ protocol = "TCP"
    /\ ipVersion = "IPv6"
    /\ natResult # NULL
    /\ Len(natResult[1].mappedAddresses) = 2
    /\ \A i \in 1..2 :
          /\ FieldOf(mappedAddresses[i][1], "UDP", "IPv6") # NULL
          /\ FieldOf(mappedAddresses[i][1], "UDP", "IPv6")
                # FieldOf(mappedAddresses[i][1], "TCP", "IPv6")

(* C19: detectPublicIP answers true only if its session accepted a srflx     *)
(* candidate over UDP whose mapped address is not private, loopback,         *)
(* link-local or broadcast, of whatever range; on every other observation    *)
(* it answers false.                                                         *)
C19_PublicOnlyIfMappedPublic ==
    (probe = "detectPublicIP" /\ probeResult = Some(TRUE))
        => /\ seen # <<>>
           /\ seen[Len(seen)].typ = "srflx"
           /\ seen[Len(seen)].protocol = "UDP"
           /\ ~IsPrivateAddress(seen[Len(seen)].ip)

-----------------------------------------------------------------------------
(* Speed tests of a run (Spec) *)

(* the mapped addresses in the evidence of the four classifications *)
EvidenceOfRecord ==
    UNION {{[ip |-> natResults[pair][1].mappedAddresses[k].ip,
             port |-> natResults[pair][1].mappedAddresses[k].port,
             server |-> natResults[pair][1].mappedAddresses[k].server,
             protocol |-> pair[1],
             ipVersion |-> pair[2]] :
               k \in 1..Len(natResults[pair][1].mappedAddresses)} :
           pair \in {q \in Pairs : natResults[q] # NULL}}

TargetsOfRecord ==
    {record[1].details.speedTests[k].mappedAddress :
        k \in 1..Len(record[1].details.speedTests)}

(* the condition under which step 8 runs the speed tests *)
SpeedTestsRun ==
    /\ record[1].details.stunServersReachable > 0
    /\ record[1].details.udpCanConnect \/ record[1].details.tcpCanConnect

-----------------------------------------------------------------------------
(* SpecConcurrent: the measurements step 8 of detectNetworkType starts with   *)
(* mappedAddresses.map(async ...) and joins with Promise.all.  Every call of  *)
(* performSpeedTest owns the variables its executor declares; the closure of  *)
(* the k-th call is tests[k].  Timers are not clocked here: a timer may fire  *)
(* at any moment after it was armed, which includes every timed behaviour.    *)

MaxPairSent == 1    \* payloads each of the concurrent measurements sends at most

(* the targets of the run, in the order step 8 collected them *)
ConcurrentTargets ==
    <<[ip |-> "203.0.113.5", port |-> 40000, server |-> 1,
       protocol |-> "UDP", ipVersion |-> "IPv4"],
      [ip |-> "203.0.113.5", port |-> 51000, server |-> 1,
       protocol |-> "TCP", ipVersion |-> "IPv4"]>>

Measurements == 1..Len(ConcurrentTargets)

(* an entry of the record of what happened to one measurement *)
Happened(e, delay) == [e |-> e, delay |-> delay]

(* the variables one executor declares, before its first statement ran *)
NewClosure(mappedAddress) ==
    [spc |-> "start", target |-> mappedAddress, negotiation |-> "pending",
     connectionEstablished |-> FALSE,
     peers |-> [pc1 |-> "none", pc2 |-> "none"],
     dataChannel1 |-> "none", dataChannel2 |-> "none",
     sendInterval |-> FALSE, stopTimer |-> FALSE, timeout |-> FALSE,
     packets |-> [sent |-> 0, received |-> 0],
     latencies |-> [count |-> 0, sum |-> 0],
     totalBytesReceived |-> 0,
     inflight |-> [toResponder |-> 0, toSender |-> 0],
     speedResult |-> NULL,
     log |-> <<>>]

(* the executor of one call: it runs to its end, or one of its constructors  *)
(* throws and the promise rejects with what was created left open            *)
Executed(t, thrownAt) ==
    IF thrownAt = "none"
    THEN [t EXCEPT !.spc = "running",
                   !.peers = [pc1 |-> "open", pc2 |-> "open"],
                   !.dataChannel1 = "connecting",
                   !.timeout = TRUE]
    ELSE [t EXCEPT !.spc = "threw",
                   !.peers = [pc1 |-> IF thrownAt = "pc1" THEN "none" ELSE "open",
                              pc2 |-> IF thrownAt = "createDataChannel" THEN "open"
                                      ELSE "none"],
                   !.log = Append(@, Happened("threw", 0))]

(* finish(result) inside one closure *)
Finished(t, result) ==
    [t EXCEPT !.timeout = FALSE,
              !.dataChannel1 = Closed(@),
              !.dataChannel2 = Closed(@),
              !.peers = [pc1 |-> Closed(t.peers.pc1), pc2 |-> Closed(t.peers.pc2)],
              !.inflight = [toResponder |-> 0, toSender |-> 0],
              !.speedResult = IF @ = NULL THEN Some(result) ELSE @]

CountersOf(t) ==
    [packets |-> t.packets, latencies |-> t.latencies,
     totalBytesReceived |-> t.totalBytesReceived]

WithCounters(t, c) ==
    [t EXCEPT !.packets = c.packets, !.latencies = c.latencies,
              !.totalBytesReceived = c.totalBytesReceived]

InitConcurrent ==
    /\ stunServers = <<1, 2>>
    /\ IdleProbe
    /\ IdleClassify
    /\ IdleRun
    /\ IdleSpeed
    /\ IdleApp
    /\ IdleDetailed
    /\ IdleExtra
    /\ tests = [k \in Measurements |-> NewClosure(ConcurrentTargets[k])]
    /\ joinedResults = NULL

Others == <<stunServers, classifyVars, runVars, speedVars, probeVars, appVars, detailedVars,
            extraVars>>

(* mappedAddresses.map(async (mappedAddr) => ...): every callback runs up to *)
(* its await, which is the whole executor of its performSpeedTest call        *)
StartAll ==
    /\ \A k \in Measurements : tests[k].spc = "start"
    /\ \E thrownAt \in [Measurements -> {"none", "pc1", "pc2", "createDataChannel"}] :
          tests' = [k \in Measurements |-> Executed(tests[k], thrownAt[k])]
    /\ UNCHANGED <<Others, joinedResults>>

(* the await of a rejected performSpeedTest throws into the catch block of   *)
(* the callback, which returns the failure object                            *)
SetupCaught(m) ==
    /\ tests[m].spc = "threw"
    /\ tests' = [tests EXCEPT ![m] =
                    [@ EXCEPT !.spc = "caught",
                              !.speedResult = Some(FailedResult(tests[m].target))]]
    /\ UNCHANGED <<Others, joinedResults>>

NegotiationFailsIn(m) ==
    /\ tests[m].spc = "running"
    /\ tests[m].negotiation = "pending"
    /\ tests' = [tests EXCEPT ![m] =
                    Finished([@ EXCEPT !.negotiation = "failed",
                                       !.log = Append(@, Happened("failed", 0))],
                             FailedResult(@.target))]
    /\ UNCHANGED <<Others, joinedResults>>

NegotiationCompletesIn(m) ==
    /\ tests[m].spc = "running"
    /\ tests[m].negotiation = "pending"
    /\ tests[m].peers.pc1 = "open" /\ tests[m].peers.pc2 = "open"
    /\ tests' = [tests EXCEPT ![m] = [@ EXCEPT !.negotiation = "done"]]
    /\ UNCHANGED <<Others, joinedResults>>

OnOpenIn(m) ==
    /\ tests[m].spc = "running"
    /\ tests[m].negotiation = "done"
    /\ tests[m].dataChannel1 = "connecting"
    /\ tests' = [tests EXCEPT ![m] =
                    IF ~@.connectionEstablished
                    THEN [@ EXCEPT !.dataChannel1 = "open",
                                   !.connectionEstablished = TRUE,
                                   !.sendInterval = TRUE,
                                   !.stopTimer = TRUE,
                                   !.log = Append(@, Happened("open", 0))]
                    ELSE [@ EXCEPT !.dataChannel1 = "open"]]
    /\ UNCHANGED <<Others, joinedResults>>

OnDataChannelIn(m) ==
    /\ tests[m].spc = "running"
    /\ tests[m].negotiation = "done"
    /\ tests[m].peers.pc2 = "open"
    /\ tests[m].dataChannel2 = "none"
    /\ tests' = [tests EXCEPT ![m] = [@ EXCEPT !.dataChannel2 = "open"]]
    /\ UNCHANGED <<Others, joinedResults>>

SendTickIn(m) ==
    /\ tests[m].spc = "running"
    /\ tests[m].sendInterval
    /\ tests' = [tests EXCEPT ![m] =
                    IF @.dataChannel1 = "open"
                    THEN IF @.packets.sent < MaxPairSent
                         THEN [@ EXCEPT !.packets.sent = @ + 1,
                                        !.inflight.toResponder = @ + 1,
                                        !.log = Append(@, Happened("sent", 0))]
                         ELSE @
                    ELSE [@ EXCEPT !.sendInterval = FALSE]]
    /\ UNCHANGED <<Others, joinedResults>>

StopSendingIn(m) ==
    /\ tests[m].spc = "running"
    /\ tests[m].stopTimer
    /\ tests' = [tests EXCEPT ![m] = [@ EXCEPT !.stopTimer = FALSE, !.sendInterval = FALSE]]
    /\ UNCHANGED <<Others, joinedResults>>

ResponderReceivesIn(m) ==
    /\ tests[m].spc = "running"
    /\ tests[m].dataChannel2 = "open"
    /\ tests[m].inflight.toResponder > 0
    /\ \E delay \in Delays, echoed \in BOOLEAN :
          tests' = [tests EXCEPT ![m] =
                       [WithCounters(@, OnMessage2(CountersOf(@), delay))
                           EXCEPT !.inflight =
                                      [toResponder |-> @.toResponder - 1,
                                       toSender |-> @.toSender + (IF echoed THEN 1 ELSE 0)],
                                  !.log = Append(@, Happened("received", delay))]]
    /\ UNCHANGED <<Others, joinedResults>>

SenderReceivesIn(m) ==
    /\ tests[m].spc = "running"
    /\ tests[m].dataChannel1 = "open"
    /\ tests[m].inflight.toSender > 0
    /\ \E delay \in Delays :
          tests' = [tests EXCEPT ![m] =
                       [WithCounters(@, OnMessage1(CountersOf(@), delay))
                           EXCEPT !.inflight.toSender = @ - 1,
                                  !.log = Append(@, Happened("echo", delay))]]
    /\ UNCHANGED <<Others, joinedResults>>

TimeoutIn(m) ==
    /\ tests[m].spc = "running"
    /\ tests[m].timeout
    /\ tests' = [tests EXCEPT ![m] =
                    Finished([@ EXCEPT !.log = Append(@, Happened("timeout", 0))],
                             TimeoutResult(CountersOf(@), @.connectionEstablished,
                                           @.target))]
    /\ UNCHANGED <<Others, joinedResults>>

(* mutant: no try/catch around the await, so one rejection rejects the       *)
(* Promise.all and every measurement is reported failed                      *)
JoinedResults_rejectAll(all) ==
    IF \E k \in DOMAIN all : all[k].spc = "caught"
    THEN [k \in DOMAIN all |-> FailedResult(all[k].target)]
    ELSE [k \in DOMAIN all |-> all[k].speedResult[1]]

(* Promise.all(speedTestPromises): the value of every callback, in order *)
JoinedResults(all) == [k \in DOMAIN all |-> all[k].speedResult[1]]

(* const results = await Promise.all(speedTestPromises) *)
SpeedTestsResolved ==
    /\ joinedResults = NULL
    /\ \A k \in Measurements : tests[k].speedResult # NULL
    /\ joinedResults' = Some(JoinedResults(tests))
    /\ UNCHANGED <<Others, tests>>

NextConcurrent ==
    \/ StartAll
    \/ \E m \in Measurements : SetupCaught(m)
    \/ \E m \in Measurements : NegotiationFailsIn(m)
    \/ \E m \in Measurements : NegotiationCompletesIn(m)
    \/ \E m \in Measurements : OnOpenIn(m)
    \/ \E m \in Measurements : OnDataChannelIn(m)
    \/ \E m \in Measurements : SendTickIn(m)
    \/ \E m \in Measurements : StopSendingIn(m)
    \/ \E m \in Measurements : ResponderReceivesIn(m)
    \/ \E m \in Measurements : SenderReceivesIn(m)
    \/ \E m \in Measurements : TimeoutIn(m)
    \/ SpeedTestsResolved

SpecConcurrent == InitConcurrent /\ [][NextConcurrent]_vars

-----------------------------------------------------------------------------
(* Properties of the concurrent measurements (SpecConcurrent) *)

ZeroCounters ==
    [packets |-> [sent |-> 0, received |-> 0], latencies |-> [count |-> 0, sum |-> 0],
     totalBytesReceived |-> 0]

(* What a measurement that ran alone delivers when the events of `log`       *)
(* happen to it, in that order: its handlers applied to counters of its own, *)
(* up to the first event that finishes it.                                   *)
RECURSIVE SoloResult(_, _, _, _)
SoloResult(log, c, established, mappedAddress) ==
    IF log = <<>> THEN NULL
    ELSE LET h == Head(log)
         IN  IF h.e \in {"threw", "failed"} THEN Some(FailedResult(mappedAddress))
             ELSE IF h.e = "timeout"
             THEN Some(TimeoutResult(c, established, mappedAddress))
             ELSE IF h.e = "open" THEN SoloResult(Tail(log), c, TRUE, mappedAddress)
             ELSE IF h.e = "sent"
             THEN SoloResult(Tail(log), [c EXCEPT !.packets.sent = @ + 1], established,
                             mappedAddress)
             ELSE IF h.e = "received"
             THEN SoloResult(Tail(log), OnMessage2(c, h.delay), established, mappedAddress)
             ELSE SoloResult(Tail(log), OnMessage1(c, h.delay), established, mappedAddress)

AloneResult(t) == SoloResult(t.log, ZeroCounters, FALSE, t.target)

(* a measurement that ended without an established path: its executor       *)
(* threw, its negotiation failed, or its timeout fired first                 *)
EndedBadly(t) == t.speedResult # NULL /\ t.speedResult[1].status = "failed"

(* C21: the measurements of a run are started together (none has begun      *)
(* while another has not), and whatever happens to the others -- failure,    *)
(* timeout, exception or success -- each measurement's result, as delivered  *)
(* by its own promise and as joined into speedTests, is the one its own      *)
(* events alone produce.                                                     *)
C21_MeasurementsIndependent ==
    /\ \A m, n \in DOMAIN tests : tests[m].spc # "start" => tests[n].spc # "start"
    /\ \A n \in DOMAIN tests :
          tests[n].speedResult # NULL => tests[n].speedResult = AloneResult(tests[n])
    /\ joinedResults # NULL
          => /\ Len(joinedResults[1]) = Len(tests)
             /\ \A n \in DOMAIN tests : Some(joinedResults[1][n]) = AloneResult(tests[n])

(* the first measurement threw in its executor and the second, which ran at  *)
(* the same time, measured an established path with a payload received       *)
C21_Witness ==
    /\ joinedResults # NULL
    /\ tests[1].spc = "caught"
    /\ joinedResults[1][1].status = "failed"
    /\ joinedResults[1][2].status = "success"
    /\ joinedResults[1][2].packetsReceived = 1
    /\ joinedResults[1][2].latency > 0

(* both measurements have a payload in flight at the same moment *)
C21_Concurrent ==
    /\ tests # <<>>
    /\ \A n \in DOMAIN tests :
          tests[n].speedResult = NULL /\ tests[n].inflight.toResponder > 0

-----------------------------------------------------------------------------
(* Properties of the classifier applied twice (SpecFromAddresses) *)

-----------------------------------------------------------------------------
(* SpecApp: the App component.  Each action is one synchronous block of the  *)
(* component's detectNetworkType (App.tsx), after which React renders the    *)
(* state the block left.  A call is started by the mount effect or by the    *)
(* button; nothing in the component keeps a call from starting while         *)
(* another is awaited, so calls may overlap here.                            *)

MaxRuns == 2        \* calls of App's detectNetworkType in one behaviour

NatTypes == {"Unknown", "Symmetric NAT", "Full Cone or Restricted Cone", "Restricted Cone"}

(* the values of `type` a record of StunClient.detectNetworkType can carry *)
RecordTypes ==
    {NetworkTypeOf(reachable, publicIP, udpNatType, tcpNatType) :
        reachable \in {<<>>, <<1>>}, publicIP \in BOOLEAN,
        udpNatType \in NatTypes, tcpNatType \in {NULL} \cup {Some(t) : t \in NatTypes}}

(* what getDetailedNetworkInfo resolves with: type, publicIP of              *)
(* getPublicIPFromStun and localIP of getLocalIP, each string | null         *)
DetailedInfos ==
    [type : RecordTypes,
     publicIP : {NULL, Some("203.0.113.5")},
     localIP : {NULL, Some(LocalIPv4)}]

(* mutant: the catch block leaves the label empty *)
FailureLabel_empty == <<>>

(* setNetworkType of the catch block *)
FailureLabel == <<"Detection failed">>

(* mutant: an absent field is rendered as nothing *)
OrNotDetected_omitted(field) == IF field # NULL THEN field[1] ELSE ""

(* {networkDetails.publicIP || 'not detected'} *)
OrNotDetected(field) == IF field # NULL THEN field[1] ELSE "Not detected"

(* what the component renders from its state: the spinner, the Alert with    *)
(* the result label, and the items of the basic-information card             *)
View ==
    [spinner |-> isDetecting,
     alert |-> IF uiNetworkType # <<>> /\ ~isDetecting THEN Some(uiNetworkType) ELSE NULL,
     card |-> IF uiNetworkType # <<>> /\ ~isDetecting /\ networkDetails # NULL
              THEN Some([type |-> networkDetails[1].type,
                         publicIP |-> OrNotDetected(networkDetails[1].publicIP),
                         localIP |-> OrNotDetected(networkDetails[1].localIP)])
              ELSE NULL]

AppOthers == <<stunServers, classifyVars, runVars, speedVars, probeVars, concurrentVars,
               detailedVars, extraVars>>

InitApp ==
    /\ stunServers = <<1, 2>>
    /\ IdleProbe
    /\ IdleClassify
    /\ IdleRun
    /\ IdleSpeed
    /\ IdleConcurrent
    /\ IdleDetailed
    /\ IdleExtra
    /\ IdleApp

(* the block before the await: setIsDetecting(true), setNetworkType(''),     *)
(* setNetworkDetails(null), new StunClient(), getDetailedNetworkInfo()       *)
DetectionStarts ==
    /\ Len(detections) < MaxRuns
    /\ isDetecting' = TRUE
    /\ uiNetworkType' = <<>>
    /\ networkDetails' = NULL
    /\ detections' = Append(detections, "running")
    /\ UNCHANGED AppOthers

(* the await resumes with the record: setNetworkType, setNetworkDetails,     *)
(* then the finally block                                                    *)
DetectionResolves(r) ==
    /\ detections[r] = "running"
    /\ \E detailedInfo \in DetailedInfos :
          /\ uiNetworkType' = detailedInfo.type
          /\ networkDetails' = Some(detailedInfo)
    /\ isDetecting' = FALSE
    /\ detections' = [detections EXCEPT ![r] = "resolved"]
    /\ UNCHANGED AppOthers

(* the await throws: the catch block, then the finally block *)
DetectionRejects(r) ==
    /\ detections[r] = "running"
    /\ uiNetworkType' = FailureLabel
    /\ isDetecting' = FALSE
    /\ detections' = [detections EXCEPT ![r] = "rejected"]
    /\ UNCHANGED <<AppOthers, networkDetails>>

NextApp ==
    \/ DetectionStarts
    \/ \E r \in DOMAIN detections : DetectionResolves(r)
    \/ \E r \in DOMAIN detections : DetectionRejects(r)

SpecApp == InitApp /\ [][NextApp]_vars

-----------------------------------------------------------------------------
(* Properties of the App component (SpecApp) *)

(* the step is the end of call r *)
Ends(r) == detections[r] = "running" /\ detections'[r] # "running"

(* C23: when a call of the component's detectNetworkType ends, isDetecting   *)
(* is false and the Alert shows a non-empty label -- the type of the record  *)
(* the call resolved with, or the failure label when it rejected; and a      *)
(* rendered record whose publicIP or localIP is absent shows 'Not detected'  *)
(* for it.                                                                   *)
C23_EndedRunIsShown ==
    [][\A r \in DOMAIN detections :
          Ends(r) =>
             /\ isDetecting' = FALSE
             /\ View'.alert # NULL
             /\ View'.alert[1] # <<>>
             /\ detections'[r] = "rejected" => View'.alert = Some(FailureLabel)
             /\ detections'[r] = "resolved"
                   => /\ View'.alert = Some(networkDetails'[1].type)
                      /\ View'.card # NULL
                      /\ networkDetails'[1].publicIP = NULL
                            => View'.card[1].publicIP = "Not detected"
                      /\ networkDetails'[1].localIP = NULL
                            => View'.card[1].localIP = "Not detected"]_vars

(* a run ended with a record that has no public and no local IP *)
C23_Witness ==
    /\ detections = <<"resolved">>
    /\ ~isDetecting
    /\ View.alert = Some(Firewalled)
    /\ View.card # NULL
    /\ View.card[1].publicIP = "Not detected"
    /\ View.card[1].localIP = "Not detected"

-----------------------------------------------------------------------------
(* First match and late events (SpecProbe) *)

(* a candidate the handler of a rendezvous probe matches and acts on *)
Matching(kind, c) ==
    IF kind = "getMappedAddress" THEN c.typ = "srflx" /\ c.port > 0
    ELSE IF kind = "testStunServerConnection" THEN c.typ = "srflx"
    ELSE IF kind = "detectPublicIP" THEN c.typ = "srflx" /\ c.protocol = "UDP"
    ELSE /\ c.typ = "srflx" /\ c.protocol = "UDP"
         /\ FirstDottedQuad(c) # NULL
         /\ ~StartsWithListed(FirstDottedQuad(c)[1])

(* the candidate is a match for the slot (proto, version) of getMappedAddress *)
MatchesSlot(c, proto, version) ==
    /\ Matching("getMappedAddress", c)
    /\ c.protocol = proto
    /\ isIPv6(c.ip) <=> version = "IPv6"

(* C24: in a session of a rendezvous probe the first matching candidate      *)
(* finishes the probe at once, and a slot of getMappedAddress keeps the      *)
(* address of the first candidate that matched it.                           *)
C24_FirstMatchWins ==
    probe # "getLocalIP" =>
        /\ (\E k \in 1..Len(seen) : Matching(probe, seen[k])) => resolved
        /\ probe = "getMappedAddress" =>
              \A proto \in Protocols, version \in IpVersions :
                  \A k \in 1..Len(seen) :
                      (/\ MatchesSlot(seen[k], proto, version)
                       /\ \A j \in 1..(k - 1) : ~MatchesSlot(seen[j], proto, version))
                          => SlotOf(gathered, proto, version)
                                 = Some([ip |-> seen[k].ip, port |-> seen[k].port])

(* the part of C24 that is about the slot alone: a later match never         *)
(* replaces the address                                                      *)
C24_SlotKeepsFirst ==
    probe = "getMappedAddress" =>
        \A proto \in Protocols, version \in IpVersions :
            \A k \in 1..Len(seen) :
                (/\ MatchesSlot(seen[k], proto, version)
                 /\ \A j \in 1..(k - 1) : ~MatchesSlot(seen[j], proto, version))
                    => SlotOf(gathered, proto, version)
                           = Some([ip |-> seen[k].ip, port |-> seen[k].port])

-----------------------------------------------------------------------------
(* SpecLateEvents: a probe session whose transport goes on emitting          *)
(* candidates after the probe closed it.  cleanup() calls pc.close() and     *)
(* drops the reference, but no probe removes its onicecandidate handler, so  *)
(* an event the transport still emits reaches the handler.  SpecProbe is the *)
(* same session with a transport that is silent once closed.                 *)

(* the value the promise was resolved with, as its consumer reads it after   *)
(* the handler ran once more: getMappedAddress resolved with the addresses   *)
(* object itself, the other probes with a value of their own                 *)
ResolvedValueAfter(kind, value, acc) ==
    IF kind = "getMappedAddress" /\ value # NULL THEN Some(acc) ELSE value

(* pc.onicecandidate with a candidate, called after finish closed the        *)
(* connection                                                                *)
LateIceCandidate ==
    /\ ppc = "running"
    /\ pc = "closed"
    /\ Len(seen) < MaxEvents
    /\ \E c \in ProbeCandidates :
          LET outcome == HandlerOutcome(probe, gathered, c)
          IN  /\ seen' = Append(seen, c)
              /\ gathered' = outcome.acc
              /\ probeResult' = ResolvedValueAfter(probe, probeResult, outcome.acc)
    /\ UNCHANGED <<stunServers, restVars, classifyVars, runVars, speedVars, probe, ppc, offer,
                   gathering, elapsed, resolved, probeTimer, pc>>

NextLateEvents ==
    \/ NextProbe
    \/ LateIceCandidate

SpecLateEvents == InitProbe /\ [][NextLateEvents]_vars

(* the 5000 ms timer finished the session: it is resolved at or after 5000   *)
(* ms, gathering never completed, the offer did not fail and no candidate    *)
(* ended it                                                                  *)
TimedOut ==
    /\ resolved
    /\ probeResult # NULL
    /\ elapsed >= 5000
    /\ gathering # "complete"
    /\ offer # "failed"
    /\ \A k \in 1..Len(seen) : ~HandlerOutcome(probe, InitialGathered(probe), seen[k]).finish

(* C25: once the timeout of a probe has fired and its value was delivered,   *)
(* a candidate its transport emits later does not change the delivered       *)
(* value.                                                                    *)
C25_LateEventsDiscarded ==
    [][TimedOut => probeResult' = probeResult]_vars

-----------------------------------------------------------------------------
(* Release of the transport (SpecProbe) *)

(* C26: whenever a probe session has delivered its result -- a value, or the *)
(* rejection of a setup failure -- its peer connection is closed (or was     *)
(* never created) and its 5000 ms timer is cleared.                          *)
C26_ReleasedWhenDelivered ==
    Settled => (pc # "open" /\ ~probeTimer)

-----------------------------------------------------------------------------
(* Release of the path (SpecSpeed) *)

(* C27: whenever a measurement has delivered its result -- at the timeout,   *)
(* on a negotiation failure, or because its executor threw -- every peer     *)
(* connection and data channel it created is closed and its timeout timer    *)
(* is cleared.                                                               *)
C27_PathReleased ==
    speedResult # NULL
        => /\ peers.pc1 # "open"
           /\ peers.pc2 # "open"
           /\ dataChannel1 \notin {"connecting", "open"}
           /\ dataChannel2 # "open"
           /\ ~timeout

-----------------------------------------------------------------------------
(* The sending window (SpecSpeed) *)

(* C28: a payload is sent only while the data channel is open and not later  *)
(* than testDuration after the measurement started, so that the timeout,     *)
(* 2000 ms after that, leaves every payload the whole buffer to arrive.      *)
C28_SentInsideWindow ==
    [][packets'.sent > packets.sent
          => /\ dataChannel1 = "open"
             /\ connectionEstablished
             /\ now <= testDuration]_vars

-----------------------------------------------------------------------------
(* Latency and throughput (SpecSpeed) *)

(* C29: a latency sample is recorded for an echo the sender receives and for *)
(* nothing else -- the responder receiving a payload records none -- and a   *)
(* measurement that received no echo reports latency 0.                      *)
C29_LatencyFromEchoesOnly ==
    [][/\ packets'.received > packets.received => latencies' = latencies
       /\ (speedResult = NULL /\ speedResult' # NULL /\ EchoesReceived = 0)
             => speedResult'[1].latency = 0]_vars

(* C30: the bytes a measurement has counted never exceed packetSize for each *)
(* payload it sent, and the throughput it reports is that byte count over    *)
(* the test window in KB/s (0 when nothing was received), hence at most the  *)
(* throughput of its sent payloads.                                          *)
C30_BytesCountedOnce ==
    /\ totalBytesReceived <= packetSize * packets.sent
    /\ speedResult # NULL
          => /\ speedResult[1].throughput
                    <= Hundredths(packetSize * speedResult[1].packetsSent * 1000,
                                  1024 * testDuration)
             /\ speedResult[1].packetsReceived = 0 => speedResult[1].throughput = 0

-----------------------------------------------------------------------------
(* SpecDetailed: one getDetailedNetworkInfo() call.  Every promise the call  *)
(* creates is a unit of its own: "pending", "fulfilled" or "rejected"; the   *)
(* values the sessions deliver are chosen where the code reads them, and a   *)
(* promise is dropped from the state once its await has consumed it.         *)

MaxTargets == 2     \* mapped addresses step 8 measures at most
MaxThrows == 1      \* constructors that throw in one call at most

(* private stunServers: the two servers the class is built with *)
DefaultRoster == <<1, 2>>

Detectors == <<<<"UDP", "IPv4">>, <<"TCP", "IPv4">>, <<"UDP", "IPv6">>, <<"TCP", "IPv6">>>>

(* the promise of an executor that ran: rejected when a constructor threw *)
Launched(constructorThrew) == IF constructorThrew THEN "rejected" ELSE "pending"

Settlements == {"fulfilled", "rejected"}

(* the number of "rejected" entries of a sequence of promises *)
RECURSIVE Rejections(_)
Rejections(units) ==
    IF units = <<>> THEN 0
    ELSE (IF Head(units) = "rejected" THEN 1 ELSE 0) + Rejections(Tail(units))

(* this.stunServers.map(server => f(server)): every executor runs *)
LaunchedRosters == [1..Len(DefaultRoster) -> {"pending", "rejected"}]

InitDetailed ==
    /\ stunServers = DefaultRoster
    /\ IdleProbe
    /\ IdleClassify
    /\ IdleRun
    /\ IdleSpeed
    /\ IdleConcurrent
    /\ IdleApp
    /\ IdleExtra
    /\ gpc = "start"
    /\ npc = "idle"
    /\ loopAt = 1
    /\ awaited = "none"
    /\ connUnits = <<>>
    /\ detSessions = <<>>
    /\ detOutcome = <<>>
    /\ speedUnits = <<>>
    /\ publicIPUnit = "none"
    /\ localIPUnit = "none"
    /\ throws = 0
    /\ networkTypeResult = NULL
    /\ detailedResult = NULL

DetailedOthers == <<stunServers, classifyVars, runVars, speedVars, probeVars, concurrentVars,
                    appVars, extraVars>>

(* getDetailedNetworkInfo is called: the three promises of its Promise.all    *)
(* are created in order.  detectNetworkType runs to the first await of        *)
(* testStunServers, that is through the executor of                           *)
(* testStunServerConnection(stunServers[0]); then the executors of            *)
(* getPublicIPFromStun and getLocalIP run.                                    *)
GetDetailedNetworkInfo ==
    /\ gpc = "start"
    /\ \E first, pub, loc \in {"pending", "rejected"} :
          /\ Rejections(<<first, pub, loc>>) <= MaxThrows - throws
          /\ awaited' = first
          /\ publicIPUnit' = pub
          /\ localIPUnit' = loc
          /\ throws' = throws + Rejections(<<first, pub, loc>>)
    /\ gpc' = "all"
    /\ npc' = "reach"
    /\ loopAt' = 1
    /\ UNCHANGED <<DetailedOthers, connUnits, detSessions, detOutcome,
                   speedUnits, networkTypeResult, detailedResult>>

(* the session a sequential await waits for finishes by an event: a          *)
(* candidate, the end of gathering, the failure of the offer                 *)
AwaitedResolves ==
    /\ awaited = "pending"
    /\ awaited' = "fulfilled"
    /\ UNCHANGED <<DetailedOthers, gpc, npc, loopAt, connUnits,
                   detSessions, detOutcome, speedUnits, publicIPUnit, localIPUnit, throws,
                   networkTypeResult, detailedResult>>

(* ... or by its 5000 ms timer *)
AwaitedTimesOut ==
    /\ awaited = "pending"
    /\ awaited' = "fulfilled"
    /\ UNCHANGED <<DetailedOthers, gpc, npc, loopAt, connUnits,
                   detSessions, detOutcome, speedUnits, publicIPUnit, localIPUnit, throws,
                   networkTypeResult, detailedResult>>

InLoop == npc = "reach" \/ gpc = "reach"

(* testStunServers: the await of one turn resumes (a rejection is caught and *)
(* logged) and the next turn calls testStunServer                            *)
LoopContinues ==
    /\ InLoop
    /\ awaited \in Settlements
    /\ loopAt < Len(stunServers)
    /\ \E constructorThrew \in BOOLEAN :
          /\ constructorThrew => throws < MaxThrows
          /\ awaited' = Launched(constructorThrew)
          /\ throws' = IF constructorThrew THEN throws + 1 ELSE throws
    /\ loopAt' = loopAt + 1
    /\ UNCHANGED <<DetailedOthers, gpc, npc, connUnits, detSessions, detOutcome,
                   speedUnits, publicIPUnit, localIPUnit, networkTypeResult, detailedResult>>

(* step 1 of detectNetworkType resumes with reachableServers and step 2       *)
(* creates the testStunServerConnection promises of its Promise.all           *)
TestStunServersReturns ==
    /\ npc = "reach"
    /\ awaited \in Settlements
    /\ loopAt = Len(stunServers)
    /\ \E units \in LaunchedRosters :
          /\ Rejections(units) <= MaxThrows - throws
          /\ connUnits' = units
          /\ throws' = throws + Rejections(units)
    /\ npc' = "conn"
    /\ awaited' = "none"
    /\ loopAt' = 1
    /\ UNCHANGED <<DetailedOthers, gpc, detSessions, detOutcome, speedUnits,
                   publicIPUnit, localIPUnit, networkTypeResult, detailedResult>>

ConnSessionResolves(i) ==
    /\ connUnits[i] = "pending"
    /\ connUnits' = [connUnits EXCEPT ![i] = "fulfilled"]
    /\ UNCHANGED <<DetailedOthers, gpc, npc, loopAt, awaited,
                   detSessions, detOutcome, speedUnits, publicIPUnit, localIPUnit, throws,
                   networkTypeResult, detailedResult>>

ConnSessionTimesOut(i) ==
    /\ connUnits[i] = "pending"
    /\ connUnits' = [connUnits EXCEPT ![i] = "fulfilled"]
    /\ UNCHANGED <<DetailedOthers, gpc, npc, loopAt, awaited,
                   detSessions, detOutcome, speedUnits, publicIPUnit, localIPUnit, throws,
                   networkTypeResult, detailedResult>>

(* step 2 resumes when every promise of the Promise.all is fulfilled; step 3 *)
(* calls detectPublicIP                                                      *)
ConnectionsResolved ==
    /\ npc = "conn"
    /\ \A i \in DOMAIN connUnits : connUnits[i] \in {"fulfilled"}
    /\ \E constructorThrew \in BOOLEAN :
          /\ constructorThrew => throws < MaxThrows
          /\ awaited' = Launched(constructorThrew)
          /\ throws' = IF constructorThrew THEN throws + 1 ELSE throws
    /\ connUnits' = <<>>
    /\ npc' = "pub"
    /\ UNCHANGED <<DetailedOthers, gpc, loopAt, detSessions, detOutcome,
                   speedUnits, publicIPUnit, localIPUnit, networkTypeResult, detailedResult>>

(* the Promise.all of step 2 rejects with its first rejected promise: no      *)
(* try/catch encloses the await and detectNetworkType rejects                 *)
ConnectionsRejected ==
    /\ npc = "conn"
    /\ \E i \in DOMAIN connUnits : connUnits[i] = "rejected"
    /\ npc' = "rejected"
    /\ UNCHANGED <<DetailedOthers, gpc, loopAt, awaited, connUnits,
                   detSessions, detOutcome, speedUnits, publicIPUnit, localIPUnit, throws,
                   networkTypeResult, detailedResult>>

(* step 3 resumes and step 4 calls the four detectors: each runs to its      *)
(* await, through this.stunServers.map(server => this.getMappedAddress(server)) *)
DetectPublicIPResolved ==
    /\ npc = "pub"
    /\ awaited \in {"fulfilled"}
    /\ \E sessions \in [DOMAIN Detectors -> LaunchedRosters] :
          LET thrown == Rejections(sessions[1] \o sessions[2] \o sessions[3] \o sessions[4])
          IN  /\ thrown <= MaxThrows - throws
              /\ detSessions' = sessions
              /\ throws' = throws + thrown
    /\ detOutcome' = [d \in DOMAIN Detectors |-> "awaiting"]
    /\ npc' = "nat"
    /\ awaited' = "none"
    /\ UNCHANGED <<DetailedOthers, gpc, loopAt, connUnits, speedUnits,
                   publicIPUnit, localIPUnit, networkTypeResult, detailedResult>>

(* the promise detectPublicIP returned is rejected: its try/catch returned   *)
(* the promise without awaiting it, and detectNetworkType rejects            *)
DetectPublicIPRejected ==
    /\ npc = "pub"
    /\ awaited = "rejected"
    /\ npc' = "rejected"
    /\ awaited' = "none"
    /\ UNCHANGED <<DetailedOthers, gpc, loopAt, connUnits, detSessions,
                   detOutcome, speedUnits, publicIPUnit, localIPUnit, throws,
                   networkTypeResult, detailedResult>>

DetSessionResolves(d, i) ==
    /\ detSessions[d][i] = "pending"
    /\ detSessions' = [detSessions EXCEPT ![d][i] = "fulfilled"]
    /\ UNCHANGED <<DetailedOthers, gpc, npc, loopAt, awaited, connUnits,
                   detOutcome, speedUnits, publicIPUnit, localIPUnit, throws,
                   networkTypeResult, detailedResult>>

DetSessionTimesOut(d, i) ==
    /\ detSessions[d][i] = "pending"
    /\ detSessions' = [detSessions EXCEPT ![d][i] = "fulfilled"]
    /\ UNCHANGED <<DetailedOthers, gpc, npc, loopAt, awaited, connUnits,
                   detOutcome, speedUnits, publicIPUnit, localIPUnit, throws,
                   networkTypeResult, detailedResult>>

(* a detector resumes from await Promise.all(...): with the objects of every *)
(* session, and returns what detectNATTypeFromAddresses makes of its slot     *)
DetectorClassifies(d) ==
    /\ detOutcome[d] = "awaiting"
    /\ \A i \in DOMAIN detSessions[d] : detSessions[d][i] \in {"fulfilled"}
    /\ \E outcome \in {"null", "result"} : detOutcome' = [detOutcome EXCEPT ![d] = outcome]
    /\ detSessions' = [detSessions EXCEPT ![d] = <<>>]
    /\ UNCHANGED <<DetailedOthers, gpc, npc, loopAt, awaited, connUnits,
                   speedUnits, publicIPUnit, localIPUnit, throws,
                   networkTypeResult, detailedResult>>

(* ... or with the first rejection of the Promise.all, in its catch block,   *)
(* which returns null                                                        *)
DetectorCatches(d) ==
    /\ detOutcome[d] = "awaiting"
    /\ \E i \in DOMAIN detSessions[d] : detSessions[d][i] = "rejected"
    /\ detOutcome' = [detOutcome EXCEPT ![d] = "null"]
    /\ UNCHANGED <<DetailedOthers, gpc, npc, loopAt, awaited, connUnits,
                   detSessions, speedUnits, publicIPUnit, localIPUnit, throws,
                   networkTypeResult, detailedResult>>

(* the object detectNetworkType returns, as far as the measurements go *)
NetworkTypeResult(speedTests) == [details |-> [speedTests |-> speedTests]]

(* step 4 resumes with the four results; steps 5 to 7; when a server was      *)
(* reachable and a transport connected, step 8 calls performSpeedTest for     *)
(* every collected address: a throw of its executor is caught by the          *)
(* callback, which returns the failed result                                  *)
StartSpeedTests ==
    /\ npc = "nat"
    /\ \A d \in DOMAIN detOutcome : detOutcome[d] # "awaiting"
    /\ \E k \in 0..MaxTargets :
          /\ k = 0 <=> \A d \in DOMAIN detOutcome : detOutcome[d] = "null"
          /\ \E units \in [1..k -> {"pending", "rejected"}] :
                /\ Rejections(units) <= MaxThrows - throws
                /\ speedUnits' = [n \in 1..k |->
                                     IF units[n] = "rejected" THEN "caught" ELSE "pending"]
                /\ throws' = throws + Rejections(units)
    /\ npc' = "speed"
    /\ UNCHANGED <<DetailedOthers, gpc, loopAt, awaited, connUnits,
                   detSessions, detOutcome, publicIPUnit, localIPUnit, networkTypeResult,
                   detailedResult>>

(* ... or step 8 is skipped and the record is returned without measurements *)
ReturnsWithoutSpeedTests ==
    /\ npc = "nat"
    /\ \A d \in DOMAIN detOutcome : detOutcome[d] # "awaiting"
    /\ networkTypeResult' = Some(NetworkTypeResult(<<>>))
    /\ npc' = "done"
    /\ UNCHANGED <<DetailedOthers, gpc, loopAt, awaited, connUnits,
                   detSessions, detOutcome, speedUnits, publicIPUnit, localIPUnit, throws,
                   detailedResult>>

(* a measurement finishes by the failure of its negotiation ... *)
SpeedTestResolves(k) ==
    /\ speedUnits[k] = "pending"
    /\ speedUnits' = [speedUnits EXCEPT ![k] = "fulfilled"]
    /\ UNCHANGED <<DetailedOthers, gpc, npc, loopAt, awaited, connUnits,
                   detSessions, detOutcome, publicIPUnit, localIPUnit, throws,
                   networkTypeResult, detailedResult>>

(* mutant: performSpeedTest arms no timer *)
SpeedTestTimesOut_unarmed(k) ==
    /\ FALSE
    /\ UNCHANGED vars

(* ... or by its timer of testDuration + 2000 ms *)
SpeedTestTimesOut(k) ==
    /\ speedUnits[k] = "pending"
    /\ speedUnits' = [speedUnits EXCEPT ![k] = "fulfilled"]
    /\ UNCHANGED <<DetailedOthers, gpc, npc, loopAt, awaited, connUnits,
                   detSessions, detOutcome, publicIPUnit, localIPUnit, throws,
                   networkTypeResult, detailedResult>>

(* step 8 resumes from await Promise.all(speedTestPromises) and the run returns *)
SpeedTestsReturned ==
    /\ npc = "speed"
    /\ \A k \in DOMAIN speedUnits : speedUnits[k] # "pending"
    /\ networkTypeResult' = Some(NetworkTypeResult(speedUnits))
    /\ speedUnits' = <<>>
    /\ npc' = "done"
    /\ UNCHANGED <<DetailedOthers, gpc, loopAt, awaited, connUnits,
                   detSessions, detOutcome, publicIPUnit, localIPUnit, throws,
                   detailedResult>>

PublicIPResolves ==
    /\ publicIPUnit = "pending"
    /\ publicIPUnit' = "fulfilled"
    /\ UNCHANGED <<DetailedOthers, gpc, npc, loopAt, awaited, connUnits,
                   detSessions, detOutcome, speedUnits, localIPUnit, throws,
                   networkTypeResult, detailedResult>>

PublicIPTimesOut ==
    /\ publicIPUnit = "pending"
    /\ publicIPUnit' = "fulfilled"
    /\ UNCHANGED <<DetailedOthers, gpc, npc, loopAt, awaited, connUnits,
                   detSessions, detOutcome, speedUnits, localIPUnit, throws,
                   networkTypeResult, detailedResult>>

LocalIPResolves ==
    /\ localIPUnit = "pending"
    /\ localIPUnit' = "fulfilled"
    /\ UNCHANGED <<DetailedOthers, gpc, npc, loopAt, awaited, connUnits,
                   detSessions, detOutcome, speedUnits, publicIPUnit, throws,
                   networkTypeResult, detailedResult>>

LocalIPTimesOut ==
    /\ localIPUnit = "pending"
    /\ localIPUnit' = "fulfilled"
    /\ UNCHANGED <<DetailedOthers, gpc, npc, loopAt, awaited, connUnits,
                   detSessions, detOutcome, speedUnits, publicIPUnit, throws,
                   networkTypeResult, detailedResult>>

(* getDetailedNetworkInfo resumes from its Promise.all and calls              *)
(* testStunServers for the second time                                       *)
AllResolved ==
    /\ gpc = "all"
    /\ npc = "done"
    /\ publicIPUnit \in {"fulfilled"}
    /\ localIPUnit \in {"fulfilled"}
    /\ \E constructorThrew \in BOOLEAN :
          /\ constructorThrew => throws < MaxThrows
          /\ awaited' = Launched(constructorThrew)
          /\ throws' = IF constructorThrew THEN throws + 1 ELSE throws
    /\ publicIPUnit' = "none"
    /\ localIPUnit' = "none"
    /\ gpc' = "reach"
    /\ loopAt' = 1
    /\ UNCHANGED <<DetailedOthers, npc, connUnits, detSessions,
                   detOutcome, speedUnits, networkTypeResult, detailedResult>>

(* the Promise.all rejects with the first of its three promises that rejects *)
AllRejected ==
    /\ gpc = "all"
    /\ npc = "rejected" \/ publicIPUnit = "rejected" \/ localIPUnit = "rejected"
    /\ gpc' = "rejected"
    /\ UNCHANGED <<DetailedOthers, npc, loopAt, awaited, connUnits,
                   detSessions, detOutcome, speedUnits, publicIPUnit, localIPUnit, throws,
                   networkTypeResult, detailedResult>>

(* the second testStunServers returns and getDetailedNetworkInfo returns its *)
(* record, with the details of networkTypeResult                             *)
DetailedReturns ==
    /\ gpc = "reach"
    /\ awaited \in Settlements
    /\ loopAt = Len(stunServers)
    /\ detailedResult' = Some([details |-> networkTypeResult[1].details])
    /\ gpc' = "returned"
    /\ awaited' = "none"
    /\ UNCHANGED <<DetailedOthers, npc, loopAt, connUnits, detSessions,
                   detOutcome, speedUnits, publicIPUnit, localIPUnit, throws,
                   networkTypeResult>>

(* the call has not settled: the model follows it until it returns or rejects *)
CallRuns == gpc \in {"all", "reach"}

(* the timers of the pending promises *)
TimerFires ==
    /\ CallRuns
    /\ \/ AwaitedTimesOut
       \/ \E i \in DOMAIN connUnits : ConnSessionTimesOut(i)
       \/ \E d \in DOMAIN detSessions :
             \E i \in DOMAIN detSessions[d] : DetSessionTimesOut(d, i)
       \/ \E k \in DOMAIN speedUnits : SpeedTestTimesOut(k)
       \/ PublicIPTimesOut
       \/ LocalIPTimesOut

(* the events of the sessions *)
SessionFinishes ==
    /\ CallRuns
    /\ \/ AwaitedResolves
       \/ \E i \in DOMAIN connUnits : ConnSessionResolves(i)
       \/ \E d \in DOMAIN detSessions :
             \E i \in DOMAIN detSessions[d] : DetSessionResolves(d, i)
       \/ \E k \in DOMAIN speedUnits : SpeedTestResolves(k)
       \/ PublicIPResolves
       \/ LocalIPResolves

(* the continuations of the settled promises *)
Resumes ==
    /\ CallRuns
    /\ \/ LoopContinues
       \/ TestStunServersReturns
       \/ ConnectionsResolved
       \/ ConnectionsRejected
       \/ DetectPublicIPResolved
       \/ DetectPublicIPRejected
       \/ \E d \in DOMAIN detOutcome : DetectorClassifies(d)
       \/ \E d \in DOMAIN detOutcome : DetectorCatches(d)
       \/ StartSpeedTests
       \/ ReturnsWithoutSpeedTests
       \/ SpeedTestsReturned
       \/ AllResolved
       \/ AllRejected
       \/ DetailedReturns

NextDetailed == GetDetailedNetworkInfo \/ TimerFires \/ SessionFinishes \/ Resumes

SpecDetailed == InitDetailed /\ [][NextDetailed]_vars

(* Timers fire and continuations of settled promises run; no event of any    *)
(* session is required to happen.                                            *)
SpecDetailedFair == SpecDetailed /\ WF_vars(TimerFires) /\ WF_vars(Resumes)

-----------------------------------------------------------------------------
(* Properties of getDetailedNetworkInfo (SpecDetailed) *)

(* the promises detectNetworkType created that are still pending *)
InFlightOfRun ==
    {<<"conn", i>> : i \in {j \in DOMAIN connUnits : connUnits[j] = "pending"}}
        \cup UNION {{<<"session", d, i>> :
                        i \in {j \in DOMAIN detSessions[d] : detSessions[d][j] = "pending"}} :
                    d \in DOMAIN detSessions}
        \cup {<<"speed", k>> : k \in {j \in DOMAIN speedUnits : speedUnits[j] = "pending"}}
        \cup (IF npc \in {"reach", "pub"} /\ awaited = "pending" THEN {<<"awaited">>} ELSE {})

(* the promises getDetailedNetworkInfo created itself that are still pending *)
InFlightOfCall ==
    (IF publicIPUnit = "pending" THEN {<<"getPublicIPFromStun">>} ELSE {})
        \cup (IF localIPUnit = "pending" THEN {<<"getLocalIP">>} ELSE {})
        \cup (IF gpc = "reach" /\ awaited = "pending" THEN {<<"awaited">>} ELSE {})

(* C31: when detectNetworkType or getDetailedNetworkInfo has returned its     *)
(* record, no probe, classification or measurement it launched is still in    *)
(* flight.                                                                    *)
C31_NothingInFlightAtReturn ==
    /\ npc = "done" => InFlightOfRun = {}
    /\ gpc = "returned" => InFlightOfRun \cup InFlightOfCall = {}

(* the part of the join that holds: a returned record carries one result for *)
(* every measurement step 8 launched                                         *)
C31_EveryMeasurementJoined ==
    [][npc = "speed" /\ npc' = "done"
          => /\ Len(networkTypeResult'[1].details.speedTests) = Len(speedUnits)
             /\ \A k \in DOMAIN speedUnits : speedUnits[k] # "pending"]_vars

(* C35: a call of getDetailedNetworkInfo that was made returns or rejects,    *)
(* whatever the sessions do, as long as timers fire and continuations run.    *)
C35_CallCompletes == (gpc = "all") ~> (gpc \in {"returned", "rejected"})

(* a call returned although every session it waited for was ended by its     *)
(* timer or its continuation alone                                           *)
C35_Witness ==
    /\ gpc = "returned"
    /\ detailedResult # NULL
    /\ Len(detailedResult[1].details.speedTests) = MaxTargets


-----------------------------------------------------------------------------
(* SpecReach: testStunServers over the default roster, one turn of the loop  *)
(* per step, with the candidates each session delivered kept in probeLog.    *)

(* the candidate lines a testStunServer session may deliver *)
ReachCandidates ==
    {[typ |-> "srflx", protocol |-> "UDP", ip |-> "203.0.113.5", port |-> 40000],
     [typ |-> "srflx", protocol |-> "TCP", ip |-> "203.0.113.5", port |-> 51000],
     [typ |-> "srflx", protocol |-> "UDP", ip |-> PrivateIPv4, port |-> 40000],
     [typ |-> "host", protocol |-> "UDP", ip |-> LocalIPv4, port |-> 50000],
     [typ |-> "host", protocol |-> "TCP", ip |-> LocalIPv4, port |-> 50000],
     [typ |-> "relay", protocol |-> "UDP", ip |-> "198.51.100.7", port |-> 40000]}

ReachEvents == SeqsUpTo(ReachCandidates, MaxEvents)

InitReach ==
    /\ stunServers = DefaultRoster
    /\ IdleProbe
    /\ IdleRest
    /\ IdleClassify
    /\ IdleSpeed
    /\ rpc = "reach"
    /\ reachNext = 1
    /\ reachableServers = <<>>
    /\ connectionResults = <<>>
    /\ canConnect = [udp |-> FALSE, tcp |-> FALSE]
    /\ hasPublicIP = FALSE
    /\ natDone = {}
    /\ natResults = [pair \in Pairs |-> NULL]
    /\ speedTargets = <<>>
    /\ record = NULL

ReachOthers == <<stunServers, classifyVars, speedVars, probeVars, concurrentVars, appVars,
                 detailedVars, publicIPVars, cadenceVars, connectionResults, canConnect, hasPublicIP,
                 natDone, natResults, speedTargets, record>>

(* one turn of the loop whose session ran: await this.testStunServer(server) *)
(* resolved after the session delivered `events`                             *)
TestStunServerTurn ==
    /\ rpc = "reach"
    /\ reachNext <= Len(stunServers)
    /\ \E events \in ReachEvents :
          /\ reachableServers' =
                IF TestStunServerResult(events)
                THEN Append(reachableServers, stunServers[reachNext])
                ELSE reachableServers
          /\ probeLog' = Append(probeLog, [events |-> events, thrown |-> FALSE])
    /\ reachNext' = reachNext + 1
    /\ UNCHANGED <<rpc, ReachOthers>>

(* one turn of the loop whose executor threw (new RTCPeerConnection or       *)
(* createDataChannel, before onicecandidate is assigned): the await rejects, *)
(* the catch block logs it and the loop goes on                              *)
TestStunServerThrows ==
    /\ rpc = "reach"
    /\ reachNext <= Len(stunServers)
    /\ probeLog' = Append(probeLog, [events |-> <<>>, thrown |-> TRUE])
    /\ reachNext' = reachNext + 1
    /\ UNCHANGED <<rpc, reachableServers, ReachOthers>>

(* return reachableServers *)
TestStunServersReturn ==
    /\ rpc = "reach"
    /\ reachNext > Len(stunServers)
    /\ rpc' = "done"
    /\ UNCHANGED <<reachNext, reachableServers, probeLog, ReachOthers>>

NextReach == TestStunServerTurn \/ TestStunServerThrows \/ TestStunServersReturn

SpecReach == InitReach /\ [][NextReach]_vars

(* the session of a server delivered a srflx candidate on this transport *)
MappedOn(entry, transport) ==
    \E k \in 1..Len(entry.events) :
        entry.events[k].typ = "srflx" /\ entry.events[k].protocol = transport

Counted(i) == \E j \in 1..Len(reachableServers) : reachableServers[j] = stunServers[i]

(* C32: a server the loop has tested is in reachableServers if and only if    *)
(* its session delivered a server-reflexive candidate on UDP or on TCP; one   *)
(* transport is enough, and a server with neither (or whose executor threw)   *)
(* is not counted.  reachableServers keeps the roster order without repeats.  *)
C32_ReachableIffMapped ==
    /\ \A i \in 1..Len(probeLog) :
          Counted(i) <=> (MappedOn(probeLog[i], "UDP") \/ MappedOn(probeLog[i], "TCP"))
    /\ \A i \in (Len(probeLog) + 1)..Len(stunServers) : ~Counted(i)
    /\ \A j, k \in 1..Len(reachableServers) : j < k => reachableServers[j] < reachableServers[k]

(* the loop returned; the first server had a TCP mapping only, the second a   *)
(* UDP mapping only, and both are counted                                     *)
C32_Witness ==
    /\ rpc = "done"
    /\ Len(probeLog) = 2
    /\ MappedOn(probeLog[1], "TCP") /\ ~MappedOn(probeLog[1], "UDP")
    /\ MappedOn(probeLog[2], "UDP") /\ ~MappedOn(probeLog[2], "TCP")
    /\ reachableServers = stunServers


-----------------------------------------------------------------------------
(* C34: once the executor of performSpeedTest has built its iceServers, they  *)
(* hold exactly the url of the roster server the target mapping names (the    *)
(* server whose session discovered the mapping), and a delivered result       *)
(* carries the target mapping it was called with, unchanged.                  *)
C34_SameServerAndTarget ==
    /\ spc # "start" =>
          /\ \E i \in 1..Len(stunServers) : stunServers[i] = target[1].server
          /\ iceServers = <<[urls |-> target[1].server]>>
    /\ speedResult # NULL => speedResult[1].mappedAddress = target[1]

(* an established measurement of a mapping the second roster server           *)
(* discovered has delivered its result                                        *)
C34_Witness ==
    /\ speedResult # NULL
    /\ speedResult[1].status = "success"
    /\ speedResult[1].packetsSent > 0
    /\ target[1].server = stunServers[2]
    /\ iceServers = <<[urls |-> stunServers[2]]>>


-----------------------------------------------------------------------------
(* C36: in every record detectNetworkType returns, the type is the firewalled *)
(* label exactly when details.stunServersReachable is 0, and that is exactly  *)
(* when details.canConnectToStun is false; both fields describe the           *)
(* reachableServers of step 1.                                                *)
C36_FirewalledEquivalences ==
    Returned =>
        /\ record[1].type = Firewalled <=> record[1].details.stunServersReachable = 0
        /\ record[1].details.stunServersReachable = 0
              <=> record[1].details.canConnectToStun = FALSE
        /\ record[1].details.stunServersReachable = Len(reachableServers)

(* a firewalled record of a run whose step 2 sessions did see a UDP mapping,  *)
(* and no public IP                                                           *)
C36_Witness ==
    /\ Returned
    /\ record[1].type = Firewalled
    /\ record[1].details.stunServersReachable = 0
    /\ record[1].details.canConnectToStun = FALSE
    /\ canConnect.udp
    /\ ~hasPublicIP


-----------------------------------------------------------------------------
(* SpecPublicIP: the sessions of detectPublicIP and of getPublicIPFromStun,   *)
(* both with stunServers[0], fed one and the same sequence of candidates.     *)

(* pc.onicecandidate of getPublicIPFromStun; st = [resolved, result] *)
PublicIPOnIceCandidate(st, c) ==
    LET outcome == HandlerOutcome("getPublicIPFromStun", NULL, c)
    IN  IF outcome.finish /\ ~st.resolved
        THEN [resolved |-> TRUE, result |-> outcome.value]
        ELSE st

RECURSIVE PublicIPAfter(_, _)
PublicIPAfter(st, events) ==
    IF events = <<>> THEN st
    ELSE PublicIPAfter(PublicIPOnIceCandidate(st, Head(events)), Tail(events))

(* what getPublicIPFromStun resolves: finish(null) on gathering complete,     *)
(* offer failure or timeout when no candidate resolved it before              *)
GetPublicIPFromStunResult(events) ==
    PublicIPAfter([resolved |-> FALSE, result |-> NULL], events).result

InitPublicIP ==
    /\ stunServers = DefaultRoster
    /\ IdleProbe
    /\ IdleClassify
    /\ IdleRun
    /\ IdleSpeed
    /\ IdleConcurrent
    /\ IdleApp
    /\ IdleDetailed
    /\ IdleReach
    /\ IdleCadence
    /\ primaryEvents \in SeqsUpTo(ProbeCandidates, MaxEvents)
    /\ publicFlag = NULL
    /\ stunPublicIP = NULL

PublicIPOthers == <<stunServers, classifyVars, runVars, speedVars, probeVars, concurrentVars,
                    appVars, detailedVars, reachVars, cadenceVars, primaryEvents>>

(* await this.detectPublicIP(): details.hasPublicIP of the record *)
DetectPublicIPOnPrimary ==
    /\ publicFlag = NULL
    /\ publicFlag' = Some(DetectPublicIPResult(primaryEvents))
    /\ UNCHANGED <<stunPublicIP, PublicIPOthers>>

(* this.getPublicIPFromStun(this.stunServers[0]): publicIP of the record *)
GetPublicIPFromStunOnPrimary ==
    /\ stunPublicIP = NULL
    /\ stunPublicIP' = Some(GetPublicIPFromStunResult(primaryEvents))
    /\ UNCHANGED <<publicFlag, PublicIPOthers>>

NextPublicIP == DetectPublicIPOnPrimary \/ GetPublicIPFromStunOnPrimary

SpecPublicIP == InitPublicIP /\ [][NextPublicIP]_vars

(* C37 as claimed: when both probes have resolved on the same candidate       *)
(* sequence, hasPublicIP is true exactly when publicIP is not null.           *)
C37_FlagIffPublicIP ==
    (publicFlag # NULL /\ stunPublicIP # NULL)
        => (publicFlag[1] = TRUE <=> stunPublicIP[1] # NULL)

(* the two probes agree on this sequence: one public IPv4 mapping over UDP    *)
(* whose line discloses no related address                                    *)
C37_AgreeingRun ==
    /\ Len(primaryEvents) = 1
    /\ primaryEvents[1].typ = "srflx" /\ primaryEvents[1].protocol = "UDP"
    /\ publicFlag = Some(TRUE)
    /\ stunPublicIP = Some(Some("203.0.113.5"))


-----------------------------------------------------------------------------
(* C38: once performSpeedTest has delivered its result, no step changes the   *)
(* result, sends a payload or counts a reception, so the packetsSent and      *)
(* packetsReceived of the result are the counters as they were at delivery    *)
(* and as they stay; a second finish leaves the result as it is.              *)
C38_DeliveredIsFinal ==
    /\ [](speedResult # NULL =>
            /\ speedResult[1].packetsSent = packets.sent
            /\ speedResult[1].packetsReceived = packets.received)
    /\ [][speedResult # NULL =>
            /\ speedResult' = speedResult
            /\ packets' = packets
            /\ inflight'.toResponder <= inflight.toResponder]_vars

(* the window expired on a path that opened at 5000 ms, while the send loop   *)
(* was still armed; the result is delivered and the next tick of the loop     *)
(* cleared the interval without sending                                       *)
C38_Witness ==
    /\ speedResult # NULL
    /\ speedResult[1].status = "success"
    /\ speedResult[1].packetsSent > 0
    /\ connectionStartTime = 5000
    /\ stopTimer
    /\ ~sendInterval


-----------------------------------------------------------------------------
(* SpecCadence: the send loop of performSpeedTest against the clock.  The     *)
(* interval of onopen is due every sendCadence ms from the instant the path   *)
(* opened, the stop timer testDuration ms after it, the timeout               *)
(* testDuration + 2000 ms after the start; a timer that is due runs before    *)
(* the clock reads a later instant, and two timers due at one instant run in  *)
(* either order.  Receptions are left to SpecSpeed.                           *)

(* the instants, in ms after the start, at which the path may open *)
OpenInstants == {0, 1000, 2000, 2030, 5000, 5990}

(* mutant: the stop timer is set to the delay of the timeout *)
StopDue_late(openedAt) == openedAt + testDuration + 2000

(* setTimeout(() => clearInterval(sendInterval), testDuration) of onopen *)
StopDue(openedAt) == openedAt + testDuration

InitCadence ==
    /\ InitSpeed
    /\ binaryType = "arraybuffer"

CadenceOthers == <<stunServers, classifyVars, runVars, probeVars, concurrentVars, appVars,
                   detailedVars, publicIPVars, reachVars, spc, target, binaryType,
                   negotiation, peers, dataChannel2, timeout, latencies,
                   totalBytesReceived, inflight, speedResult, iceServers>>

(* dataChannel1.onopen at the instant `now` *)
CadenceOnOpen ==
    /\ spc = "running"
    /\ negotiation = "done"
    /\ dataChannel1 = "connecting"
    /\ now \in OpenInstants
    /\ dataChannel1' = "open"
    /\ IF ~connectionEstablished
       THEN /\ connectionEstablished' = TRUE
            /\ connectionStartTime' = now
            /\ sendInterval' = TRUE
            /\ nextTick' = now + sendCadence
            /\ stopTimer' = TRUE
       ELSE UNCHANGED <<connectionEstablished, connectionStartTime, sendInterval, nextTick,
                        stopTimer>>
    /\ UNCHANGED <<now, packets, CadenceOthers>>

(* the setInterval callback when it is due: send one payload (send() may      *)
(* throw), or clear the interval when dataChannel1 is gone or not open        *)
CadenceTick ==
    /\ spc = "running"
    /\ sendInterval
    /\ now >= nextTick
    /\ IF dataChannel1 = "open"
       THEN /\ \/ packets' = [packets EXCEPT !.sent = @ + 1]
               \/ UNCHANGED packets
            /\ nextTick' = nextTick + sendCadence
            /\ UNCHANGED sendInterval
       ELSE /\ sendInterval' = FALSE
            /\ UNCHANGED <<packets, nextTick>>
    /\ UNCHANGED <<now, connectionEstablished, connectionStartTime, dataChannel1, stopTimer,
                   CadenceOthers>>

(* the stop timer of onopen when it is due: clearInterval(sendInterval) *)
CadenceStop ==
    /\ spc = "running"
    /\ stopTimer
    /\ now >= StopDue(connectionStartTime)
    /\ stopTimer' = FALSE
    /\ sendInterval' = FALSE
    /\ UNCHANGED <<now, connectionEstablished, connectionStartTime, dataChannel1, packets,
                   nextTick, CadenceOthers>>

CadenceDue ==
    \/ timeout /\ now >= testDuration + 2000
    \/ stopTimer /\ now >= StopDue(connectionStartTime)
    \/ sendInterval /\ now >= nextTick

(* the instants at which something can happen next *)
CadenceInstants ==
    OpenInstants
        \cup (IF timeout THEN {testDuration + 2000} ELSE {})
        \cup (IF stopTimer THEN {StopDue(connectionStartTime)} ELSE {})
        \cup (IF sendInterval THEN {nextTick} ELSE {})

(* time passes to the next such instant *)
CadenceTimePasses ==
    /\ spc = "running"
    /\ ~CadenceDue
    /\ \E t \in CadenceInstants :
          /\ t > now
          /\ \A u \in CadenceInstants : u > now => t <= u
          /\ now' = t
    /\ UNCHANGED <<connectionEstablished, connectionStartTime, dataChannel1, sendInterval,
                   stopTimer, packets, nextTick, CadenceOthers>>

NextCadence ==
    \/ Setup
    \/ SetupThrows
    \/ NegotiationFails
    \/ NegotiationCompletes
    \/ CadenceOnOpen
    \/ CadenceTick
    \/ CadenceStop
    \/ ConnectionLost
    \/ Timeout
    \/ CadenceTimePasses

SpecCadence == InitCadence /\ [][NextCadence]_vars

(* C39: a measurement never sends more than testDuration / sendCadence = 80   *)
(* payloads, whenever the path opened, so packetsSent of every result is at   *)
(* most 80; and a result with packetsSent > 0 is the result of a measurement  *)
(* whose path opened.                                                         *)
C39_SendsWithinWindow ==
    /\ testDuration \div sendCadence = 80
    /\ packets.sent <= 80
    /\ speedResult # NULL =>
          /\ speedResult[1].packetsSent <= 80
          /\ speedResult[1].packetsSent > 0 =>
                (connectionEstablished /\ speedResult[1].status = "success")

(* the path opened 1000 ms after the start and every callback of the          *)
(* interval sent: the result reports 80 payloads                              *)
C39_Witness ==
    /\ speedResult # NULL
    /\ connectionStartTime = 1000
    /\ speedResult[1].packetsSent = 80

====
